---- MODULE Spec2Model ----
(***************************************************************************)
(* A model of local-llm-mailbot: the per-account history cursor of the     *)
(* poll loops, the message/task store, the two-tier classifier, the task   *)
(* planner and reminder dispatcher, and the confirmation-gated tools of    *)
(* the action executor.                                                    *)
(*                                                                         *)
(* Two main loops exist in the repository: src/main.py ("legacy": poll,    *)
(* plan, dispatch) and src/src/mailbot/main.py ("mailbot": backfill, poll, *)
(* action executor).  Both are modelled; the variable program says which   *)
(* one a behaviour is running.                                             *)
(*                                                                         *)
(* Collaborators outside the modelled functions (the Gmail and Calendar    *)
(* APIs, the MIME parse, the language model, the agent library) appear by  *)
(* their outcomes: each call returns one of its possible results or        *)
(* raises.                                                                 *)
(***************************************************************************)
EXTENDS Integers, Sequences, FiniteSets, TLC

(***************************************************************************)
(* Bounds of the model.                                                    *)
(***************************************************************************)
NumMsgs == 2          \* message identifiers 1..NumMsgs
MaxHist == 2          \* history ids 0..MaxHist
MaxDay == 2           \* the clock runs over days 0..MaxDay

(***************************************************************************)
(* Program constants.                                                      *)
(***************************************************************************)
NumAccounts == 2
MaxQueue == 2
MaxConfirmations == 2
CALENDAR_IMPORTANCE_THRESHOLD == 7
DEEP_THRESHOLD_IMPORTANCE == 7
PLANNING_INTERVAL_HOURS == 6
AGENT_ALWAYS_ASK_HUMAN == TRUE
EventLeadDays == 1
ReminderLeadDays == 2
LookbackDays == 7
LlamaRetries == 4
MaxText == 5
MaxPlanned == 12
ContextCap == 10
MaxUpdates == 3
HistoryAttempts == 5

Msgs == 1..NumMsgs
Accounts == 1..NumAccounts
Kinds == {"event", "reminder"}
NoRow == "no_row"

(***************************************************************************)
(* Time.  A datetime is <<day, hour, microsecond>>; its isoformat() text   *)
(* is the sequence of its fixed-width fields, the fractional part being    *)
(* written only when the microsecond is not 0.  SQLite compares the stored *)
(* TEXT with the parameter TEXT lexicographically.                         *)
(***************************************************************************)
Hours == {0, 12}
Days == 0..MaxDay
ClockValues == {<<d, h>> : d \in Days, h \in Hours}

isoformat(dt) == IF dt[3] = 0 THEN <<dt[1], dt[2]>> ELSE <<dt[1], dt[2], dt[3]>>

fromisoformat(text) ==
  <<text[1],
    IF Len(text) >= 2 THEN text[2] ELSE 0,
    IF Len(text) >= 3 THEN text[3] ELSE 0>>

(* faulty variant: the time of day is kept *)
DatePartWhole(text) == text

(* t["datetime"].split("T", 1)[0] *)
DatePart(text) == <<text[1]>>

MinusDays(dt, k) == <<dt[1] - k, dt[2], dt[3]>>

RECURSIVE TextLE(_, _)
TextLE(s, t) ==
  IF s = <<>> THEN TRUE
  ELSE IF t = <<>> THEN FALSE
  ELSE IF Head(s) < Head(t) THEN TRUE
  ELSE IF Head(s) > Head(t) THEN FALSE
  ELSE TextLE(Tail(s), Tail(t))

(* chronological order of two datetimes *)
DtLE(a, b) ==
  \/ a[1] < b[1]
  \/ a[1] = b[1] /\ a[2] < b[2]
  \/ a[1] = b[1] /\ a[2] = b[2] /\ a[3] <= b[3]

HoursOf(c) == c[1] * 24 + c[2]

VARIABLES
  program,        \* "legacy" (src/main.py) or "mailbot" (src/src/mailbot/main.py)
  pc,             \* position of the main loop
  acctIdx,        \* index into ACCOUNTS of the account being polled
  pending,        \* message ids of the current history response still to process
  resp,           \* the history response being worked on
  any_important,  \* legacy main_loop: any_important
  loopNow,        \* legacy main_loop: now, read at the top of the cycle
  last_planning,  \* legacy main_loop: last_planning, in hours
  clock,          \* the wall clock, <<day, hour>>
  history_ids,    \* main_loop: history_ids[email]
  emails,         \* table emails, in rowid order
  raw_messages,   \* table raw_messages: msg_id -> the stored raw_json
  tasks,          \* table tasks; task_id is the index
  lastDispatch,   \* this cycle's dispatcher run: the rows selected, its now, the
                  \* task ids whose notification was delivered, the one that failed
  lastRun,        \* this cycle's last planner run: its items, the inserts made and
                  \* rejected, the calendar entries and notifications it produced
  lastAdd,        \* the last direct add_task call and the table before it
  spammers,       \* mailbot main_loop: spammers[email], in memory
  lastProc,       \* the last process_message call: its inputs and what it did
  lastPoll,       \* this cycle's polls: the accounts asked, the last outcome
  USER_CONFIRMATIONS, \* task_agents.USER_CONFIRMATIONS
  response_queue, \* telegram_listener.response_queue
  agent,          \* the running handle_action: its message, the gate it waits in
  lastTool,       \* the last tool body that ran
  mailbox,        \* the Gmail mailboxes: for each message the historyId of its
                  \* arrival (0: not arrived) and whether it arrived between its
                  \* account's messages().list and getProfile calls
  classifier,     \* the last direct call of a function of classifier.py or
                  \* calendar_planner.py: its name, its input, what it returned
  updates,        \* the updates Telegram holds for the bot, in update_id order
  listener        \* the listener thread: _update_offset, whether it runs, the
                  \* update ids it has put, those still queued, those fetched

loopVars == <<pc, acctIdx, pending, resp, any_important, loopNow, last_planning>>
dbVars == <<emails, raw_messages, tasks>>
ghostVars == <<lastDispatch, lastRun, lastAdd>>
mbVars == <<spammers, lastProc, lastPoll>>
agVars == <<USER_CONFIRMATIONS, response_queue, agent, lastTool>>
vars == <<program, loopVars, clock, history_ids, dbVars, ghostVars, mbVars, agVars, mailbox, classifier, updates, listener>>

(***************************************************************************)
(* db.py                                                                   *)
(***************************************************************************)
HasTask(tk, msg_id, kind) ==
  \E i \in DOMAIN tk : tk[i].msg_id = msg_id /\ tk[i].type = kind

(* faulty variant: INSERT OR REPLACE, the existing row is overwritten *)
add_task_replace(tk, msg_id, kind, target_date, scheduled_time) ==
  [tasks |-> Append(SelectSeq(tk, LAMBDA r : ~(r.msg_id = msg_id /\ r.type = kind)),
                    [msg_id |-> msg_id, type |-> kind, target_date |-> target_date,
                     scheduled_time |-> isoformat(scheduled_time), sent |-> 0]),
   inserted |-> TRUE]

(* faulty variant: a plain INSERT into a table without the unique index *)
add_task_no_index(tk, msg_id, kind, target_date, scheduled_time) ==
  [tasks |-> Append(tk, [msg_id |-> msg_id, type |-> kind, target_date |-> target_date,
                         scheduled_time |-> isoformat(scheduled_time), sent |-> 0]),
   inserted |-> TRUE]

(* INSERT OR IGNORE under the unique index ux_tasks_msg_type *)
add_task(tk, msg_id, kind, target_date, scheduled_time) ==
  IF HasTask(tk, msg_id, kind)
  THEN [tasks |-> tk, inserted |-> FALSE]
  ELSE [tasks |-> Append(tk, [msg_id |-> msg_id, type |-> kind,
                              target_date |-> target_date,
                              scheduled_time |-> isoformat(scheduled_time),
                              sent |-> 0]),
        inserted |-> TRUE]

(* faulty variant: the UPDATE without its WHERE clause *)
mark_task_sent_all(tk, task_id) ==
  [i \in DOMAIN tk |-> [tk[i] EXCEPT !.sent = 1]]

mark_task_sent(tk, task_id) ==
  [i \in DOMAIN tk |-> IF i = task_id THEN [tk[i] EXCEPT !.sent = 1] ELSE tk[i]]

(* faulty variant: scheduled_time < ? *)
get_due_tasks_strict(tk, nowText) ==
  {i \in DOMAIN tk : tk[i].sent = 0 /\ TextLE(tk[i].scheduled_time, nowText)
                                    /\ tk[i].scheduled_time # nowText}

get_due_tasks(tk, nowText) ==
  {i \in DOMAIN tk : tk[i].sent = 0 /\ TextLE(tk[i].scheduled_time, nowText)}

HasEmail(em, msg_id) == \E i \in DOMAIN em : em[i].msg_id = msg_id

EmailRow(em, msg_id) ==
  IF HasEmail(em, msg_id)
  THEN em[CHOOSE i \in DOMAIN em : em[i].msg_id = msg_id]
  ELSE NoRow

(* faulty variant: a plain INSERT, the old row for the msg_id stays *)
mark_email_append(em, rec) == Append(em, rec)

(* INSERT OR REPLACE keyed by msg_id: the old row goes, the new one gets a
   fresh rowid *)
mark_email(em, rec) ==
  Append(SelectSeq(em, LAMBDA r : r.msg_id # rec.msg_id), rec)

NoRaw == 0
NullRaw == 0 - 1
RawOf(h) == [m \in Msgs |-> h]

(* INSERT OR REPLACE INTO raw_messages *)
cache_raw_message(raw, msg_id, raw_json) == [raw EXCEPT ![msg_id] = raw_json]

(* the parsed raw_json, or None (NoRaw) when there is no row or the stored
   text is "null" *)
load_raw_message(raw, msg_id) == IF raw[msg_id] > 0 THEN raw[msg_id] ELSE NoRaw

(***************************************************************************)
(* telegram_message.py: send_telegram.  safe_msg is assigned only when     *)
(* html is false, so the HTML mode raises before anything is posted; the   *)
(* Markdown mode posts and raises on an HTTP error status.                 *)
(***************************************************************************)
send_telegram(html, httpOK) ==
  IF html THEN "raise"
  ELSE IF httpOK THEN "sent" ELSE "raise"

(***************************************************************************)
(* calendar_planner.py: plan_calendar_actions.  A planning reply is None   *)
(* (llama_chat gave up) or a list whose first object is spread over the    *)
(* item's msg_id: keys of the reply override.  An absent key is written    *)
(* "" (type), <<>> (datetime), 0 (msg_id).                                 *)
(***************************************************************************)
PlanTexts == {<<MaxDay, 12>>}
EmptyObj == [type |-> "", datetime |-> <<>>, msg_id |-> 0]
PlanObjs ==
  {[type |-> ty, datetime |-> dt, msg_id |-> ov] :
      ty \in Kinds, dt \in PlanTexts, ov \in {0} \cup Msgs} \cup {EmptyObj}
PlanResps ==
  {[list |-> FALSE, obj |-> EmptyObj]} \cup {[list |-> TRUE, obj |-> o] : o \in PlanObjs}

SortKey(item) ==
  <<IF item.category = "Important" THEN 0 ELSE 1, 0 - item.importance>>

(* faulty variant: importance alone decides *)
KeyLessImportanceOnly(a, b) == SortKey(a)[2] < SortKey(b)[2]

KeyLess(a, b) ==
  \/ SortKey(a)[1] < SortKey(b)[1]
  \/ SortKey(a)[1] = SortKey(b)[1] /\ SortKey(a)[2] < SortKey(b)[2]

RECURSIVE InsertItem(_, _)
InsertItem(s, x) ==
  IF s = <<>> THEN <<x>>
  ELSE IF KeyLess(x, Head(s)) THEN <<x>> \o s
  ELSE <<Head(s)>> \o InsertItem(Tail(s), x)

(* sorted(items, key=...): stable *)
RECURSIVE sorted_items(_)
sorted_items(items) ==
  IF items = <<>> THEN <<>>
  ELSE InsertItem(sorted_items(SubSeq(items, 1, Len(items) - 1)), items[Len(items)])

RECURSIVE PlanLoop(_, _, _)
PlanLoop(its, resps, scheduled) ==
  IF its = <<>> THEN scheduled
  ELSE LET item == Head(its)
           r == resps[item.msg_id]
       IN IF ~r.list
          THEN PlanLoop(Tail(its), resps, scheduled)
          ELSE PlanLoop(Tail(its), resps,
                 Append(scheduled,
                   [msg_id |-> IF r.obj.msg_id # 0 THEN r.obj.msg_id ELSE item.msg_id,
                    type |-> r.obj.type,
                    datetime |-> r.obj.datetime]))

plan_calendar_actions(items, resps) == PlanLoop(sorted_items(items), resps, <<>>)

(* so_far: "so_far[:10]" of the scheduled list (the ids, dropped from the
   prompt, are kept here to tell the entries apart) *)
so_far(scheduled) ==
  SubSeq(scheduled, 1, IF Len(scheduled) < ContextCap THEN Len(scheduled) ELSE ContextCap)

(* the context the k-th pass of the loop puts in its prompt: scheduled is
   what the passes before it appended *)
ContextAt(items, resps, k) ==
  so_far(PlanLoop(SubSeq(sorted_items(items), 1, k - 1), resps, <<>>))

(* the msg_ids in the order the loop of plan_calendar_actions takes them *)
PlanningOrder(items) ==
  [i \in DOMAIN items |-> sorted_items(items)[i].msg_id]

(***************************************************************************)
(* src/main.py: schedule_calendar_stage                                    *)
(***************************************************************************)
Candidates(em, cutoffDay) ==
  SelectSeq(em, LAMBDA r :
     /\ r.category = "Important" \/ r.importance >= CALENDAR_IMPORTANCE_THRESHOLD
     /\ r.date >= cutoffDay)

(* faulty variant: only reminder tasks count *)
processed_reminders(tk) ==
  {tk[i].msg_id : i \in {j \in DOMAIN tk : tk[j].type = "reminder"}}

(* faulty variant: only event tasks count *)
processed_events(tk) == {tk[i].msg_id : i \in {j \in DOMAIN tk : tk[j].type = "event"}}

(* SELECT DISTINCT msg_id FROM tasks *)
processed(tk) == {tk[i].msg_id : i \in DOMAIN tk}

PlanItems(em, tk, cutoffDay) ==
  SelectSeq(Candidates(em, cutoffDay), LAMBDA r : r.msg_id \notin processed(tk))

(* the loop "for t in tasks" over the planned tasks; st is the state so far *)
RECURSIVE ScheduleLoop(_, _, _)
ScheduleLoop(ts, st, calOK) ==
  IF ts = <<>> \/ st.crashed THEN st
  ELSE LET t == Head(ts) IN
    IF t.type = "" THEN ScheduleLoop(Tail(ts), st, calOK)
    ELSE IF t.type = "event"
    THEN LET dt_start == fromisoformat(t.datetime)
             key == <<t.msg_id, "event">>
             r == add_task(st.tasks, t.msg_id, "event", t.datetime,
                           MinusDays(dt_start, EventLeadDays))
         IN IF ~r.inserted
            THEN ScheduleLoop(Tail(ts), [st EXCEPT !.rejected = @ \cup {key}], calOK)
            ELSE LET ins == [st EXCEPT !.tasks = r.tasks, !.inserted = Append(@, key),
                                       !.proposed = Append(@, t.datetime)]
                 IN IF ~calOK
                    THEN [ins EXCEPT !.crashed = TRUE]
                    ELSE LET withCal == [ins EXCEPT !.cal = Append(@, t.msg_id),
                                                    !.sends = Append(@, key)]
                         IN IF send_telegram(TRUE, TRUE) = "raise"
                            THEN [withCal EXCEPT !.crashed = TRUE]
                            ELSE ScheduleLoop(Tail(ts),
                                   [withCal EXCEPT !.notes = Append(@, key)], calOK)
    ELSE LET dt_target == fromisoformat(DatePart(t.datetime))
             key == <<t.msg_id, "reminder">>
             r == add_task(st.tasks, t.msg_id, "reminder", t.datetime,
                           MinusDays(dt_target, ReminderLeadDays))
         IN IF ~r.inserted
            THEN ScheduleLoop(Tail(ts), [st EXCEPT !.rejected = @ \cup {key}], calOK)
            ELSE LET ins == [st EXCEPT !.tasks = r.tasks, !.inserted = Append(@, key),
                                       !.proposed = Append(@, t.datetime),
                                       !.sends = Append(@, key)]
                 IN IF send_telegram(TRUE, TRUE) = "raise"
                    THEN [ins EXCEPT !.crashed = TRUE]
                    ELSE ScheduleLoop(Tail(ts),
                           [ins EXCEPT !.notes = Append(@, key)], calOK)

schedule_calendar_stage(em, tk, nowDay, resps, calOK) ==
  LET st0 == [tasks |-> tk, crashed |-> FALSE, items |-> {}, order |-> <<>>,
              rejected |-> {},
              inserted |-> <<>>, cal |-> <<>>, sends |-> <<>>, notes |-> <<>>,
              proposed |-> <<>>, ran |-> FALSE]
      rows == Candidates(em, nowDay - LookbackDays)
      items == PlanItems(em, tk, nowDay - LookbackDays)
      planned == plan_calendar_actions(items, resps)
  IN IF rows = <<>> THEN st0
     ELSE ScheduleLoop(planned,
            [st0 EXCEPT !.items = {items[i].msg_id : i \in DOMAIN items},
                        !.order = PlanningOrder(items),
                        !.ran = TRUE],
            calOK)

(***************************************************************************)
(* src/main.py: run_due_reminders                                          *)
(***************************************************************************)
(* the SELECT: unsent tasks whose scheduled_time text is <= now's text,
   joined with their emails row *)
DueRows(tk, em, nowText) ==
  {i \in get_due_tasks(tk, nowText) : HasEmail(em, tk[i].msg_id)}

RECURSIVE Ascending(_)
Ascending(S) ==
  IF S = {} THEN <<>>
  ELSE LET m == CHOOSE x \in S : \A y \in S : x <= y
       IN <<m>> \o Ascending(S \ {m})

(* the loop over the selected rows: the send for row number failAt raises
   (mode "send_fails") or the process is killed between that send and its
   mark (mode "killed"); failAt = 0 means every send succeeds *)
(* faulty variant: the task is marked sent before its notification is sent *)
RECURSIVE DispatchLoopMarkFirst(_, _, _, _, _)
DispatchLoopMarkFirst(rows, j, st, failAt, mode) ==
  IF j > Len(rows) THEN st
  ELSE LET id == rows[j]
           marked == [st EXCEPT !.tasks = mark_task_sent(@, id)]
           out == send_telegram(FALSE, ~(j = failAt /\ mode = "send_fails"))
       IN IF out = "raise"
          THEN [marked EXCEPT !.crashed = TRUE, !.failed = id]
          ELSE LET sentSt == [marked EXCEPT !.delivered = @ \cup {id}]
               IN IF j = failAt /\ mode = "killed"
                  THEN [sentSt EXCEPT !.crashed = TRUE]
                  ELSE DispatchLoopMarkFirst(rows, j + 1, sentSt, failAt, mode)

RECURSIVE DispatchLoop(_, _, _, _, _)
DispatchLoop(rows, j, st, failAt, mode) ==
  IF j > Len(rows) THEN st
  ELSE LET id == rows[j]
           out == send_telegram(FALSE, ~(j = failAt /\ mode = "send_fails"))
       IN IF out = "raise"
          THEN [st EXCEPT !.crashed = TRUE, !.failed = id]
          ELSE LET sentSt == [st EXCEPT !.delivered = @ \cup {id}]
               IN IF j = failAt /\ mode = "killed"
                  THEN [sentSt EXCEPT !.crashed = TRUE]
                  ELSE DispatchLoop(rows, j + 1,
                         [sentSt EXCEPT !.tasks = mark_task_sent(@, id)],
                         failAt, mode)

run_due_reminders(tk, em, now, failAt, mode) ==
  LET rows == Ascending(DueRows(tk, em, isoformat(now)))
  IN DispatchLoop(rows, 1,
       [tasks |-> tk, crashed |-> FALSE, failed |-> 0, delivered |-> {},
        selected |-> DueRows(tk, em, isoformat(now))],
       failAt, mode)

(***************************************************************************)
(* Messages.  The sender, recipient account and Date header of a message   *)
(* are fixed by its identifier.                                            *)
(***************************************************************************)
MsgTo(m) == ((m - 1) % NumAccounts) + 1
MsgFrom(m) == 1

Rec(m, cat, imp, act, summ, deep, day) ==
  [msg_id |-> m, category |-> cat, importance |-> imp, action |-> act,
   summary |-> summ, deep_summary |-> deep, date |-> day]

NoDispatch ==
  [selected |-> {}, now |-> <<0, 0, 0>>, failed |-> 0, retried |-> 0,
   delivered |-> {}, ran |-> FALSE]
NoRun ==
  [items |-> {}, order |-> <<>>, rejected |-> {}, inserted |-> <<>>, cal |-> <<>>,
   sends |-> <<>>, notes |-> <<>>, proposed |-> <<>>, ran |-> FALSE, n |-> 0]
NoAdd == [called |-> FALSE, existed |-> FALSE, inserted |-> FALSE, before |-> <<>>]
NoResp == [ok |-> FALSE, hasId |-> FALSE, historyId |-> 0, mids |-> <<>>]

(***************************************************************************)
(* src/main.py: main_loop                                                  *)
(***************************************************************************)
NoGiven ==
  [found |-> FALSE, payload |-> 1, parsed |-> TRUE, msg_dt_ok |-> TRUE,
   llm |-> [i \in 1..LlamaRetries |-> [ok |-> FALSE, text |-> <<>>]],
   deepRes |-> "fail", agentOK |-> TRUE]
NoChat == [fn |-> ""]
(* start_listener has run; _update_offset = 0 *)
ListenerStarted ==
  [offset |-> 0, alive |-> TRUE, enqueued |-> <<>>, ids |-> <<>>, got |-> <<>>]
NoProc == [ran |-> FALSE, fn |-> "", mid |-> 0, how |-> "", called |-> FALSE,
           exhausted |-> FALSE, deep |-> FALSE, action |-> FALSE,
           fetches |-> 0, saw |-> 0, rowBefore |-> 0,
           spamIn |-> {}, spamOut |-> {},
           given |-> NoGiven, again |-> FALSE, fresh |-> FALSE, n |-> 0]
NoCall == [made |-> FALSE, statuses |-> <<>>, out |-> "", calls |-> 0, sleeps |-> <<>>,
           acct |-> 0, n |-> 0]
NoPoll == [failed |-> {}, processed |-> {}, moved |-> {}, quiet |-> {}, records |-> {},
           call |-> NoCall]
NoAgent == [msg |-> 0, asking |-> ""]
NoTool == [ran |-> FALSE, tool |-> "", msg |-> 0, confirmed |-> FALSE,
           effect |-> FALSE, refused |-> FALSE, asked |-> "", item |-> "",
           returned |-> "", stale |-> 0, old |-> FALSE]

ToolNames == {"gmail_mark_spam", "gmail_create_event", "schedule_reminder", "send_email"}

NotArrived == [hist |-> 0, gap |-> FALSE]

MailbotIdle ==
  /\ spammers = [a \in Accounts |-> {}]
  /\ lastProc = NoProc /\ lastPoll = NoPoll
  /\ mailbox = [m \in Msgs |-> NotArrived]
  /\ classifier = NoChat

AgentIdle ==
  /\ USER_CONFIRMATIONS = [k \in ToolNames \X Msgs |-> "unset"]   \* the empty dict
  /\ response_queue = <<>>
  /\ agent = NoAgent /\ lastTool = NoTool
  /\ updates = <<>> /\ listener = ListenerStarted

NextClock(c) == IF c[2] = 0 THEN <<c[1], 12>> ELSE <<c[1] + 1, 0>>

(* time passes while the loop sleeps or the process is down *)
Tick ==
  /\ pc \in {"top", "crashed"}
  /\ NextClock(clock) \in ClockValues
  /\ clock' = NextClock(clock)
  /\ UNCHANGED <<program, mailbox, classifier, updates, listener, loopVars, history_ids, dbVars, ghostVars>>
  /\ UNCHANGED <<mbVars, agVars>>

LgLoopTop ==
  /\ program = "legacy" /\ pc = "top"
  /\ pc' = "poll"
  /\ loopNow' = clock
  /\ any_important' = FALSE
  /\ acctIdx' = 1
  /\ lastDispatch' = [NoDispatch EXCEPT !.failed = lastDispatch.failed]
  /\ lastRun' = [NoRun EXCEPT !.n = lastRun.n]
  /\ lastPoll' = NoPoll
  /\ UNCHANGED <<program, mailbox, classifier, updates, listener, pending, resp, last_planning, clock, history_ids,
                 dbVars, lastAdd>>
  /\ UNCHANGED <<spammers, lastProc, agVars>>

(* one iteration of "for acct in ACCOUNTS": history().list, the cursor
   update, and the records to process *)
LgPollAccount(Resps) ==
  /\ program = "legacy" /\ pc = "poll"
  /\ acctIdx \in Accounts /\ pending = <<>>
  /\ \E r \in Resps :
       IF ~r.ok
       THEN /\ acctIdx' = acctIdx + 1
            /\ UNCHANGED <<history_ids, pending>>
       ELSE /\ history_ids' =
                 [history_ids EXCEPT ![acctIdx] = IF r.hasId THEN r.historyId ELSE @]
            /\ pending' = r.mids
            /\ acctIdx' = IF r.mids = <<>> THEN acctIdx + 1 ELSE acctIdx
  /\ UNCHANGED <<program, mailbox, classifier, updates, listener, pc, resp, any_important, loopNow, last_planning, clock,
                 dbVars, ghostVars>>
  /\ UNCHANGED <<mbVars, agVars>>

(* a planning run from the main loop; the stage's exceptions are not caught *)
PlannerStep(nextPc) ==
  \E resps \in [Msgs -> PlanResps], calOK \in BOOLEAN :
    \E st \in {schedule_calendar_stage(emails, tasks, clock[1], resps, calOK)} :
       /\ tasks' = st.tasks
       /\ lastRun' = [items |-> st.items, order |-> st.order,
                      rejected |-> st.rejected,
                      inserted |-> st.inserted, cal |-> st.cal,
                      sends |-> st.sends, notes |-> st.notes,
                         proposed |-> st.proposed, ran |-> st.ran,
                      n |-> 1 - lastRun.n]
       /\ pc' = IF st.crashed THEN "crashed" ELSE nextPc

LgAfterPoll ==
  /\ program = "legacy" /\ pc = "poll" /\ acctIdx > NumAccounts
  /\ IF any_important
     THEN PlannerStep("dispatch")
     ELSE /\ pc' = "dispatch"
          /\ UNCHANGED <<tasks, lastRun>>
  /\ UNCHANGED <<program, mailbox, classifier, updates, listener, acctIdx, pending, resp, any_important, loopNow,
                 last_planning, clock, history_ids, emails, raw_messages,
                 lastDispatch, lastAdd>>
  /\ UNCHANGED <<mbVars, agVars>>

LgDispatch ==
  /\ program = "legacy" /\ pc = "dispatch"
  /\ \E us \in {0, 1}, failAt \in 0..Len(tasks), mode \in {"send_fails", "killed"} :
       LET now == <<clock[1], clock[2], us>>
       IN \E st \in {run_due_reminders(tasks, emails, now, failAt, mode)} :
          /\ failAt <= Cardinality(st.selected)
          /\ failAt = 0 => mode = "send_fails"
          /\ tasks' = st.tasks
          /\ lastDispatch' = [selected |-> st.selected, now |-> now,
                              failed |-> st.failed,
                              retried |-> IF lastDispatch.failed \in st.selected
                                          THEN lastDispatch.failed ELSE 0,
                              delivered |-> st.delivered, ran |-> TRUE]
          /\ pc' = IF st.crashed THEN "crashed" ELSE "periodic"
  /\ UNCHANGED <<program, mailbox, classifier, updates, listener, acctIdx, pending, resp, any_important, loopNow,
                 last_planning, clock, history_ids, emails, raw_messages,
                 lastRun, lastAdd>>
  /\ UNCHANGED <<mbVars, agVars>>

(* the periodic planning check, then the sleep until the next cycle *)
LgPeriodic ==
  /\ program = "legacy" /\ pc = "periodic"
  /\ IF HoursOf(loopNow) - last_planning >= PLANNING_INTERVAL_HOURS
     THEN /\ PlannerStep("top")
          /\ last_planning' = IF pc' = "crashed" THEN last_planning ELSE HoursOf(loopNow)
     ELSE /\ pc' = "top"
          /\ UNCHANGED <<tasks, lastRun, last_planning>>
  /\ UNCHANGED <<program, mailbox, classifier, updates, listener, acctIdx, pending, resp, any_important, loopNow,
                 clock, history_ids, emails, raw_messages,
                 lastDispatch, lastAdd>>
  /\ UNCHANGED <<mbVars, agVars>>

(* the process is started again after it died: main_loop's set-up *)
LgRestart(Tips) ==
  /\ program = "legacy" /\ pc = "crashed"
  /\ pc' = "top"
  /\ acctIdx' = 1 /\ pending' = <<>> /\ resp' = NoResp /\ any_important' = FALSE
  /\ loopNow' = clock
  /\ last_planning' = HoursOf(clock) - PLANNING_INTERVAL_HOURS
  /\ history_ids' \in [Accounts -> Tips]
  /\ UNCHANGED <<program, mailbox, classifier, updates, listener, clock, dbVars, ghostVars>>
  /\ UNCHANGED <<mbVars, agVars>>

(***************************************************************************)
(* SpecTasks: the legacy main loop over a quiet mailbox (history().list    *)
(* fails or reports nothing new), started on a store left by earlier runs. *)
(***************************************************************************)
QuietResps ==
  {NoResp, [ok |-> TRUE, hasId |-> FALSE, historyId |-> 0, mids |-> <<>>]}

StoredRows(m) ==
  {Rec(m, "Important", 5, "sa", "ss", "", 0),
   Rec(m, "Social", 3, "sa", "ss", "", 0)}

StoredTables ==
  {t \in [Msgs -> UNION {StoredRows(m) : m \in Msgs}] : \A m \in Msgs : t[m].msg_id = m}

LgQuietPoll == LgPollAccount(QuietResps)
LgQuietRestart == LgRestart({0})

InitTasks ==
  /\ program = "legacy" /\ pc = "top"
  /\ acctIdx = 1 /\ pending = <<>> /\ resp = NoResp /\ any_important = FALSE
  /\ loopNow = <<0, 0>> /\ clock = <<0, 0>>
  /\ last_planning = HoursOf(<<0, 0>>) - PLANNING_INTERVAL_HOURS
  /\ history_ids = [a \in Accounts |-> 0]
  /\ emails \in StoredTables
  /\ raw_messages = RawOf(1)
  /\ tasks = <<>>
  /\ lastDispatch = NoDispatch /\ lastRun = NoRun /\ lastAdd = NoAdd
  /\ MailbotIdle /\ AgentIdle

NextTasks ==
  \/ Tick
  \/ LgLoopTop
  \/ LgQuietPoll
  \/ LgAfterPoll
  \/ LgDispatch
  \/ LgPeriodic
  \/ LgQuietRestart

SpecTasks == InitTasks /\ [][NextTasks]_vars

(***************************************************************************)
(* SpecTaskTable: the tasks table under arbitrary add_task and             *)
(* mark_task_sent calls.                                                   *)
(***************************************************************************)
SchedChoices == {<<0, 0, 0>>, <<1, 12, 0>>}

AddTaskCall ==
  /\ \E m \in Msgs, k \in Kinds, target \in PlanTexts, sched \in SchedChoices :
       LET r == add_task(tasks, m, k, target, sched)
       IN /\ tasks' = r.tasks
          /\ lastAdd' = [called |-> TRUE, existed |-> HasTask(tasks, m, k),
                         inserted |-> r.inserted, before |-> tasks]
  /\ UNCHANGED <<program, mailbox, classifier, updates, listener, loopVars, clock, history_ids, emails, raw_messages,
                 lastDispatch, lastRun>>
  /\ UNCHANGED <<mbVars, agVars>>

MarkTaskSentCall ==
  /\ \E id \in DOMAIN tasks : tasks' = mark_task_sent(tasks, id)
  /\ lastAdd' = NoAdd
  /\ UNCHANGED <<program, mailbox, classifier, updates, listener, loopVars, clock, history_ids, emails, raw_messages,
                 lastDispatch, lastRun>>
  /\ UNCHANGED <<mbVars, agVars>>

InitTaskTable ==
  /\ program = "legacy" /\ pc = "top"
  /\ acctIdx = 1 /\ pending = <<>> /\ resp = NoResp /\ any_important = FALSE
  /\ loopNow = <<0, 0>> /\ clock = <<0, 0>>
  /\ last_planning = HoursOf(<<0, 0>>) - PLANNING_INTERVAL_HOURS
  /\ history_ids = [a \in Accounts |-> 0]
  /\ emails = <<>> /\ raw_messages = RawOf(NoRaw)
  /\ tasks = <<>>
  /\ lastDispatch = NoDispatch /\ lastRun = NoRun /\ lastAdd = NoAdd
  /\ MailbotIdle /\ AgentIdle

NextTaskTable == AddTaskCall \/ MarkTaskSentCall

SpecTaskTable == InitTaskTable /\ [][NextTaskTable]_vars

TaskKey(row) == <<row.msg_id, row.type>>

(* C2: the tasks table never holds two rows with the same (msg_id, type),
   and an add_task call for a pair that already has a row returns False and
   leaves the whole table, sent flags and scheduled times included, as it
   was *)
C2_TaskUniqueness ==
  /\ \A i, j \in DOMAIN tasks : i # j => TaskKey(tasks[i]) # TaskKey(tasks[j])
  /\ (lastAdd.called /\ lastAdd.existed) =>
        (~lastAdd.inserted /\ tasks = lastAdd.before)

(* a duplicate add_task call was made on a table whose row was already sent *)
C2_Witness ==
  /\ lastAdd.called /\ lastAdd.existed /\ ~lastAdd.inserted
  /\ \E i \in DOMAIN tasks : tasks[i].sent = 1

(***************************************************************************)
(* Planner and dispatcher claims, under SpecTasks                          *)
(***************************************************************************)
Range(f) == {f[i] : i \in DOMAIN f}

PlannerRan == lastRun'.n # lastRun.n
DispatcherRan == pc = "dispatch" /\ pc' # "dispatch"

(* C3: a planning run leaves every (message, kind) that already has a task
   row alone: no row is added for it, no calendar entry is created and no
   notification is sent for it; the calendar collaborator and send_telegram
   are called only for tasks whose add_task returned True *)
C3_NoRepeatedPlanning ==
  [][PlannerRan =>
       /\ \A m \in Msgs, k \in Kinds :
            HasTask(tasks, m, k) =>
              /\ Cardinality({i \in DOMAIN tasks' : TaskKey(tasks'[i]) = <<m, k>>}) = 1
              /\ <<m, k>> \notin Range(lastRun'.inserted)
              /\ <<m, k>> \notin Range(lastRun'.sends)
              /\ k = "event" => m \notin Range(lastRun'.cal)
       /\ Range(lastRun'.sends) \subseteq Range(lastRun'.inserted)
       /\ \A m \in Range(lastRun'.cal) : <<m, "event">> \in Range(lastRun'.inserted)
       /\ Len(lastRun'.cal) <= Len(lastRun'.inserted)]_vars

(* a planning run proposed a task for a pair that already had a row, and the
   insert was rejected *)
C3_Witness ==
  /\ lastRun.ran /\ lastRun.rejected # {}
  /\ lastRun.cal = <<>> /\ lastRun.sends = <<>>

(* C8: a task's sent flag only goes from 0 to 1, only in a dispatcher run and
   only for a task that run notified; rows are never removed; a task already
   sent is not selected or notified by a dispatcher run *)
C8_SentMonotonic ==
  [][/\ Len(tasks') >= Len(tasks)
     /\ \A i \in DOMAIN tasks :
          /\ TaskKey(tasks'[i]) = TaskKey(tasks[i])
          /\ tasks'[i].sent >= tasks[i].sent
          /\ tasks'[i].sent # tasks[i].sent =>
               (DispatcherRan /\ i \in lastDispatch'.delivered)
          /\ (tasks[i].sent = 1 /\ DispatcherRan) =>
               (i \notin lastDispatch'.selected /\ i \notin lastDispatch'.delivered)]_vars

(* a dispatcher run passed over a task sent in an earlier run while it
   selected another one *)
C8_Witness ==
  /\ lastDispatch.ran /\ lastDispatch.selected # {}
  /\ \E i \in DOMAIN tasks :
       tasks[i].sent = 1 /\ i \notin lastDispatch.selected

(* C9: a dispatcher run at time now selects exactly the rows that were then
   unsent with a scheduled time at or before now *)
C9_DueSelection ==
  [][DispatcherRan =>
       lastDispatch'.selected =
         {i \in DOMAIN tasks :
            /\ tasks[i].sent = 0
            /\ DtLE(fromisoformat(tasks[i].scheduled_time), lastDispatch'.now)}]_vars

(* a run selected a due task at the very instant of its scheduled time while
   an unsent task scheduled later and a sent task were in the table *)
C9_Witness ==
  /\ lastDispatch.ran
  /\ \E i \in lastDispatch.selected :
       fromisoformat(tasks[i].scheduled_time) = lastDispatch.now
  /\ \E i \in DOMAIN tasks : tasks[i].sent = 0 /\ i \notin lastDispatch.selected
  /\ \E i \in DOMAIN tasks : tasks[i].sent = 1 /\ i \notin lastDispatch.selected

(* C10: a task becomes sent only in a run whose notification for it was
   delivered; a task whose notification failed is left unsent and the next
   dispatcher run selects it again *)
C10_MarkAfterSend ==
  [][/\ \A i \in DOMAIN tasks :
          (tasks[i].sent = 0 /\ tasks'[i].sent = 1) => i \in lastDispatch'.delivered
     /\ DispatcherRan =>
          /\ lastDispatch'.failed # 0 =>
               /\ tasks'[lastDispatch'.failed].sent = 0
               /\ lastDispatch'.failed \notin lastDispatch'.delivered
          /\ lastDispatch.failed # 0 =>
               lastDispatch.failed \in lastDispatch'.selected]_vars

(* a task whose notification failed in one run was selected, notified and
   marked sent by a later run *)
C10_Witness ==
  /\ lastDispatch.ran /\ lastDispatch.retried # 0
  /\ lastDispatch.retried \in lastDispatch.delivered
  /\ tasks[lastDispatch.retried].sent = 1

(* C17: no exception raised while planning tasks ends the poll loop: after
   a planning run the loop is still running *)
C17_PlanningNeverEndsLoop ==
  [][PlannerRan => pc' # "crashed"]_vars

(* a planning run got as far as a notification and the loop is dead *)
C17_Witness ==
  /\ program = "legacy" /\ pc = "crashed"
  /\ lastRun.ran /\ lastRun.sends # <<>> /\ lastRun.notes = <<>>

(***************************************************************************)
(* src/main.py: schedule_calendar_stage called on any emails table of up   *)
(* to MaxItems rows, again and again; an exception it raises ends the      *)
(* process, which is then started again                                    *)
(***************************************************************************)
MaxItems == 3
PlanMsgs == 1..MaxItems
PlannerDay == LookbackDays + 1

(* rows inside the window (date 1 = the cutoff day) and one before it *)
PlannerRows(m) ==
  {Rec(m, "Important", 5, "sa", "ss", "", 1), Rec(m, "Important", 8, "sa", "ss", "", 1),
   Rec(m, "Social", 9, "sa", "ss", "", 1), Rec(m, "Social", 5, "sa", "ss", "", 1),
   Rec(m, "Important", 5, "sa", "ss", "", 0)}

PlannerTables ==
  UNION {{t \in [1..n -> UNION {PlannerRows(m) : m \in PlanMsgs}] :
            \A i \in 1..n : t[i].msg_id = i} : n \in 1..MaxItems}

(* the planner model declines, or plans a reminder or an event *)
PlannerResps ==
  {[list |-> FALSE, obj |-> EmptyObj],
   [list |-> TRUE, obj |-> [type |-> "event", datetime |-> <<MaxDay, 12>>, msg_id |-> 0]],
   [list |-> TRUE, obj |-> [type |-> "reminder", datetime |-> <<MaxDay + 1, 12>>, msg_id |-> 0]]}

PlRun ==
  /\ program = "planner" /\ pc = "idle"
  /\ \E resps \in [PlanMsgs -> PlannerResps], calOK \in BOOLEAN :
       \E st \in {schedule_calendar_stage(emails, tasks, clock[1], resps, calOK)} :
          /\ tasks' = st.tasks
          /\ lastRun' = [items |-> st.items, order |-> st.order,
                         rejected |-> st.rejected,
                         inserted |-> st.inserted, cal |-> st.cal,
                         sends |-> st.sends, notes |-> st.notes,
                         proposed |-> st.proposed, ran |-> st.ran,
                         n |-> 1 - lastRun.n]
          /\ pc' = IF st.crashed THEN "crashed" ELSE "idle"
  /\ UNCHANGED <<program, mailbox, classifier, updates, listener, acctIdx, pending, resp, any_important, loopNow,
                 last_planning, clock, history_ids, emails, raw_messages,
                 lastDispatch, lastAdd, mbVars, agVars>>

PlRestart ==
  /\ program = "planner" /\ pc = "crashed"
  /\ pc' = "idle"
  /\ UNCHANGED <<program, mailbox, classifier, updates, listener, acctIdx, pending, resp, any_important, loopNow,
                 last_planning, clock, history_ids, dbVars, ghostVars, mbVars, agVars>>

InitPlanner ==
  /\ program = "planner" /\ pc = "idle"
  /\ acctIdx = 1 /\ pending = <<>> /\ resp = NoResp /\ any_important = FALSE
  /\ loopNow = <<PlannerDay, 0>> /\ clock = <<PlannerDay, 0>>
  /\ last_planning = 0
  /\ history_ids = [a \in Accounts |-> 0]
  /\ emails \in PlannerTables /\ raw_messages = RawOf(1)
  /\ tasks = <<>>
  /\ lastDispatch = NoDispatch /\ lastRun = NoRun /\ lastAdd = NoAdd
  /\ MailbotIdle /\ AgentIdle

NextPlanner == PlRun \/ PlRestart

SpecPlanner == InitPlanner /\ [][NextPlanner]_vars

RowOf(m) == emails[CHOOSE i \in DOMAIN emails : emails[i].msg_id = m]
ArrivedBefore(a, b) ==
  \E i, j \in DOMAIN emails : i < j /\ emails[i].msg_id = a /\ emails[j].msg_id = b

PlansBefore(a, b) ==
  LET ra == RowOf(a)
      rb == RowOf(b)
      sameGroup == (ra.category = "Important") = (rb.category = "Important")
  IN \/ ra.category = "Important" /\ rb.category # "Important"
     \/ sameGroup /\ ra.importance > rb.importance
     \/ sameGroup /\ ra.importance = rb.importance /\ ArrivedBefore(a, b)

ExampleTable ==
  /\ Len(emails) = 3
  /\ emails[1].category = "Important" /\ emails[1].importance = 5 /\ emails[1].date = 1
  /\ emails[2].category = "Social" /\ emails[2].importance = 9 /\ emails[2].date = 1
  /\ emails[3].category = "Important" /\ emails[3].importance = 8 /\ emails[3].date = 1

(* C25: the planning calls of a run are made Important items first, inside
   each group by descending importance, and items equal on both keys in
   arrival order; for A (Important, 5), B (Social, 9), C (Important, 8), none
   of them with a task, the order is C, A, B. *)
C25_PlanningOrder ==
  [][(PlannerRan /\ lastRun'.ran) =>
       /\ \A i, j \in DOMAIN lastRun'.order :
            i < j => PlansBefore(lastRun'.order[i], lastRun'.order[j])
       /\ (ExampleTable /\ tasks = <<>>) => lastRun'.order = <<3, 1, 2>>]_vars

C25_Witness ==
  ExampleTable /\ lastRun.ran /\ lastRun.order = <<3, 1, 2>>

HasAnyTask(m) == \E i \in DOMAIN tasks : tasks[i].msg_id = m
InWindow(r) == r.date >= clock[1] - LookbackDays
Eligible(r) ==
  /\ r.category = "Important" \/ r.importance >= CALENDAR_IMPORTANCE_THRESHOLD
  /\ InWindow(r)

(* C26: the items of a planning run are exactly the stored records that are
   Important or at least CALENDAR_IMPORTANCE_THRESHOLD, dated inside the
   lookback window, and without a task row of either kind when the run
   starts; every planning call of the run is for one of them. *)
C26_CandidateSelection ==
  [][(PlannerRan /\ lastRun'.ran) =>
       /\ lastRun'.items =
            {emails[i].msg_id : i \in {j \in DOMAIN emails :
                                        Eligible(emails[j]) /\ ~HasAnyTask(emails[j].msg_id)}}
       /\ {lastRun'.order[i] : i \in DOMAIN lastRun'.order} = lastRun'.items
       /\ \A i \in DOMAIN lastRun'.order : ~HasAnyTask(lastRun'.order[i])]_vars

C26_Witness ==
  /\ lastRun.ran /\ lastRun.items # {}
  /\ \E i \in DOMAIN emails :
       Eligible(emails[i]) /\ HasAnyTask(emails[i].msg_id)
         /\ emails[i].msg_id \notin lastRun.items
  /\ \E i \in DOMAIN emails :
       emails[i].category = "Important" /\ ~InWindow(emails[i])
         /\ emails[i].msg_id \notin lastRun.items
  /\ pc = "idle"

CountIn(seq, x) == Cardinality({i \in DOMAIN seq : seq[i] = x})

(* C31: for a proposed event the row is inserted, then the calendar entry is
   created, then the notification is sent: every event row a planning run
   inserted has exactly one calendar entry and exactly one delivered
   notification in that run, and neither exists without the row. *)
C31_EventStepsComplete ==
  [][(PlannerRan /\ lastRun'.ran) =>
       /\ \A i \in DOMAIN lastRun'.inserted :
            lastRun'.inserted[i][2] = "event" =>
              /\ CountIn(lastRun'.cal, lastRun'.inserted[i][1]) = 1
              /\ CountIn(lastRun'.notes, lastRun'.inserted[i]) = 1
       /\ \A i \in DOMAIN lastRun'.cal :
            CountIn(lastRun'.inserted, <<lastRun'.cal[i], "event">>) = 1
       /\ \A i \in DOMAIN lastRun'.notes :
            lastRun'.notes[i][2] = "event" =>
              CountIn(lastRun'.cal, lastRun'.notes[i][1]) = 1]_vars

(* an event row was inserted and its calendar entry created, the send was
   attempted and nothing was delivered *)
C31_Witness ==
  /\ lastRun.ran /\ pc = "crashed"
  /\ \E i \in DOMAIN lastRun.inserted :
       /\ lastRun.inserted[i][2] = "event"
       /\ CountIn(lastRun.cal, lastRun.inserted[i][1]) = 1
       /\ CountIn(lastRun.sends, lastRun.inserted[i]) = 1
       /\ CountIn(lastRun.notes, lastRun.inserted[i]) = 0
       /\ HasTask(tasks, lastRun.inserted[i][1], "event")

(* C35: an event row inserted before the calendar call or the notification
   failed stays in the tasks table; every later planning run leaves the rows
   it finds as they are, does not plan a message that has an event row and
   creates no calendar entry for it. *)
C35_FailedEventNotRetried ==
  [][PlannerRan =>
       /\ \A i \in DOMAIN tasks : i \in DOMAIN tasks' /\ tasks'[i] = tasks[i]
       /\ \A i \in DOMAIN lastRun'.inserted :
            HasTask(tasks', lastRun'.inserted[i][1], lastRun'.inserted[i][2])
       /\ \A m \in PlanMsgs :
            HasTask(tasks, m, "event") =>
              (m \notin lastRun'.items /\ CountIn(lastRun'.cal, m) = 0)]_vars

(* an earlier run inserted an event row for a message and died; a later run
   planned another message, not that one, and the row is unsent and in place *)
C35_Witness ==
  /\ lastRun.ran /\ lastRun.items # {}
  /\ \E i \in DOMAIN tasks :
       /\ tasks[i].type = "event" /\ tasks[i].sent = 0
       /\ tasks[i].msg_id \notin lastRun.items
       /\ CountIn(lastRun.cal, tasks[i].msg_id) = 0
       /\ CountIn(lastRun.inserted, <<tasks[i].msg_id, "event">>) = 0
       /\ Eligible(RowOf(tasks[i].msg_id))

(* midnight of the day of a timestamp text *)
MidnightOf(text) == <<text[1], 0, 0>>
StrictlyBefore(a, b) == DtLE(a, b) /\ a # b

(* C40: every reminder row a planner run inserts has as scheduled_time the
   midnight of the proposed target's date minus ReminderLeadDays days, which
   is strictly earlier than the target, and has the proposed timestamp as
   its target_date *)
C40_ReminderLead ==
  \A i \in DOMAIN lastRun.inserted :
    lastRun.inserted[i][2] = "reminder" =>
      \E j \in DOMAIN tasks :
        /\ tasks[j].msg_id = lastRun.inserted[i][1] /\ tasks[j].type = "reminder"
        /\ tasks[j].target_date = lastRun.proposed[i]
        /\ tasks[j].scheduled_time =
             isoformat(<<MidnightOf(lastRun.proposed[i])[1] - ReminderLeadDays, 0, 0>>)
        /\ StrictlyBefore(fromisoformat(tasks[j].scheduled_time),
                          fromisoformat(tasks[j].target_date))

(* a run inserted a reminder proposed for noon of a day: the row is due at
   the midnight two days before and keeps the noon timestamp as its target *)
C40_Witness ==
  \E i \in DOMAIN lastRun.inserted :
    /\ lastRun.inserted[i][2] = "reminder" /\ lastRun.proposed[i] = <<MaxDay + 1, 12>>
    /\ \E j \in DOMAIN tasks :
         /\ tasks[j].msg_id = lastRun.inserted[i][1] /\ tasks[j].type = "reminder"
         /\ tasks[j].scheduled_time = <<MaxDay + 1 - ReminderLeadDays, 0>>
         /\ tasks[j].target_date = <<MaxDay + 1, 12>>

(***************************************************************************)
(* classifier.py                                                           *)
(***************************************************************************)
Cls(cat, imp) == [category |-> cat, importance |-> imp, action |-> "a", summary |-> "s"]
NoObj == [category |-> "", importance |-> 0, action |-> "", summary |-> ""]
ClsObjs == {Cls("Important", 5), Cls("Social", 7), Cls("Social", 3), Cls("Spam", 2)}

(* a reply text is a sequence of characters: the braces "{" and "}", the
   double quote "q", "k" for a run of well-formed members (it carries the
   fields they give the parsed dict) and "x" for any other text; a request
   that failed has no text *)
Ch(c) == [ch |-> c, obj |-> NoObj]
Member(o) == [ch |-> "k", obj |-> o]
Junk == Ch("x")
Json(o) == <<Ch("{"), Member(o), Ch("}")>>
RequestError == [err |-> TRUE, text |-> <<>>]
Reply(text) == [err |-> FALSE, text |-> text]
(* a 200 response whose body is not the chat envelope: resp.json() or
   ["choices"][0]["message"]["content"] raises, outside llama_chat's try *)
BadBody == [err |-> FALSE, text |-> <<>>, body |-> FALSE]

(* text.find(c, i): the first position at or after i holding c, 0 for -1 *)
RECURSIVE find(_, _, _)
find(text, c, i) ==
  IF i > Len(text) THEN 0
  ELSE IF text[i].ch = c THEN i ELSE find(text, c, i + 1)

(* json.loads inside an object, from position i: the position of the brace
   that closes it, 0 for JSONDecodeError; a string runs to the next quote
   whatever it holds, a nested object follows a key, text that is no member
   is an error *)
RECURSIVE ObjectEnd(_, _)
ObjectEnd(c, i) ==
  IF i > Len(c) THEN 0
  ELSE IF c[i].ch = "}" THEN i
  ELSE IF c[i].ch = "k" THEN ObjectEnd(c, i + 1)
  ELSE IF c[i].ch = "q"
  THEN LET e == find(c, "q", i + 1) IN IF e = 0 THEN 0 ELSE ObjectEnd(c, e + 1)
  ELSE IF c[i].ch = "{" /\ c[i - 1].ch \in {"k", "q"}
  THEN LET e == ObjectEnd(c, i + 1) IN IF e = 0 THEN 0 ELSE ObjectEnd(c, e + 1)
  ELSE 0

(* json.loads(candidate): the dict, whose fields are those of its first
   members (none: the empty dict), or JSONDecodeError *)
json_loads(c) ==
  IF Len(c) >= 2 /\ c[1].ch = "{" /\ ObjectEnd(c, 2) = Len(c)
  THEN [ok |-> TRUE, obj |-> LET m == find(c, "k", 1) IN IF m = 0 THEN NoObj ELSE c[m].obj]
  ELSE [ok |-> FALSE, obj |-> NoObj]

(* faulty variant of the depth loop: the first closing brace ends the
   candidate *)
RECURSIVE CloseAtFirst(_, _, _)
CloseAtFirst(text, j, depth) ==
  IF j > Len(text) THEN 0
  ELSE IF text[j].ch = "}" THEN j
  ELSE CloseAtFirst(text, j + 1, depth)

(* "for j in range(start, n)": the position where depth returns to 0, or 0
   when the string runs out (the for's else); every brace counts, inside a
   string too *)
RECURSIVE CloseAt(_, _, _)
CloseAt(text, j, depth) ==
  IF j > Len(text) THEN 0
  ELSE IF text[j].ch = "{" THEN CloseAt(text, j + 1, depth + 1)
  ELSE IF text[j].ch = "}"
  THEN IF depth - 1 = 0 THEN j ELSE CloseAt(text, j + 1, depth - 1)
  ELSE CloseAt(text, j + 1, depth)

(* the "while True" loop, with i the position scanning resumes at *)
RECURSIVE ScanFrom(_, _)
ScanFrom(text, i) ==
  LET start == find(text, "{", i)
  IN IF start = 0 THEN <<>>
     ELSE LET j == CloseAt(text, start, 0)
          IN IF j = 0 THEN <<>>
             ELSE LET p == json_loads(SubSeq(text, start, j))
                  IN (IF p.ok THEN <<p.obj>> ELSE <<>>) \o ScanFrom(text, j + 1)

extract_json_objects(text) == ScanFrom(text, 1)

(* llama_chat's loop "for attempt in range(1, retries+1)" *)
RECURSIVE LlamaAttempt(_, _)
LlamaAttempt(outs, attempt) ==
  IF attempt > LlamaRetries
  THEN [none |-> TRUE, raised |-> FALSE, js |-> <<>>, requests |-> attempt - 1]
  ELSE IF outs[attempt].err THEN LlamaAttempt(outs, attempt + 1)
  ELSE IF outs[attempt] = BadBody
  THEN [none |-> FALSE, raised |-> TRUE, js |-> <<>>, requests |-> attempt]
  ELSE LET js == extract_json_objects(outs[attempt].text)
       IN IF js = <<>> THEN LlamaAttempt(outs, attempt + 1)
          ELSE [none |-> FALSE, raised |-> FALSE, js |-> js, requests |-> attempt]

llama_chat(outs) == LlamaAttempt(outs, 1)

(* faulty variant: the fallback files the message as ordinary mail *)
FallbackOrdinary == [category |-> "Social", importance |-> 1, action |-> "", summary |-> ""]

Fallback == [category |-> "Spam", importance |-> 1, action |-> "", summary |-> ""]

(* faulty variant: the except branch keeps the message as ordinary mail *)
initial_classify_lenient(msg_dt_ok, outs) ==
  IF ~msg_dt_ok THEN [raised |-> TRUE, called |-> FALSE, obj |-> NoObj]
  ELSE LET r == llama_chat(outs)
       IN [raised |-> FALSE, called |-> TRUE,
           obj |-> IF r.none THEN Cls("Social", 7) ELSE r.js[1]]

(* the prompt is formatted outside the try: a message without a parsable
   Date header (msg_dt None) raises TypeError; llama_chat(...)[0] on None
   raises inside the try and gives the fallback *)
initial_classify(msg_dt_ok, outs) ==
  IF ~msg_dt_ok THEN [raised |-> TRUE, called |-> FALSE, obj |-> NoObj]
  ELSE LET r == llama_chat(outs)
       IN [raised |-> FALSE, called |-> TRUE,
           obj |-> IF r.none \/ r.raised THEN Fallback ELSE r.js[1]]

(* the first JSON object of a deep reply: the five fields with the shallow
   values kept ("keep") or the category changed to Spam ("spam"), or only
   some of the fields ("lower", "retitled") *)
DeepReply(init, deepRes) ==
  IF deepRes = "lower" THEN [importance |-> 2, deep_summary |-> "d"]
  ELSE IF deepRes = "retitled"
  THEN [category |-> "Important", action |-> "da", summary |-> "ds"]
  ELSE [category |-> IF deepRes = "spam" THEN "Spam" ELSE init.category,
        importance |-> init.importance,
        action |-> init.action, summary |-> init.summary, deep_summary |-> "d"]

(* faulty variant: a failed deep pass returns the fallback of the shallow pass *)
deep_analyze_blank(init, deepRes) ==
  IF deepRes = "fail"
  THEN [category |-> "Spam", importance |-> 1, action |-> "", summary |-> ""]
  ELSE DeepReply(init, deepRes)

(* llama_chat(...)[0], or the except branch, which returns the four shallow
   fields *)
deep_analyze(init, deepRes) ==
  IF deepRes = "fail"
  THEN [category |-> init.category, importance |-> init.importance,
        action |-> init.action, summary |-> init.summary]
  ELSE DeepReply(init, deepRes)

(* faulty variant: only the explanation is taken from the deep pass *)
update_explanation_only(rec, deep) ==
  [f \in DOMAIN rec |-> IF f \in DOMAIN deep /\ f = "deep_summary"
                        THEN deep[f] ELSE rec[f]]

(* rec.update(deep) *)
update(rec, deep) ==
  [f \in DOMAIN rec |-> IF f \in DOMAIN deep THEN deep[f] ELSE rec[f]]

(* faulty variant: both conditions are required *)
NeedsDeepBoth(obj) ==
  obj.importance >= DEEP_THRESHOLD_IMPORTANCE /\ obj.category = "Important"

(* lines 118-119: "deep if flagged" *)
NeedsDeep(obj) ==
  obj.importance >= DEEP_THRESHOLD_IMPORTANCE \/ obj.category = "Important"

Failures == {RequestError, Reply(<<Junk>>)}
Goods == {Reply(<<Junk>> \o Json(o)) : o \in ClsObjs}
(* the attempts of one llama_chat call: k failures, then replies with JSON;
   k is none, all but the last attempt, or every attempt *)
LlmRuns ==
  {[i \in 1..LlamaRetries |-> IF i <= k THEN f ELSE g] :
     k \in {0, LlamaRetries - 1, LlamaRetries}, f \in Failures, g \in Goods}

(***************************************************************************)
(* src/src/mailbot/main.py: process_message                                *)
(***************************************************************************)
(* what the collaborators do in one call: the Gmail fetch (found or 404),
   the MIME parse (returns or raises), whether the Date header parses, the
   shallow and deep model replies, the action executor (returns or raises) *)
AllProcInputs ==
  [found : BOOLEAN, payload : 1..MaxHist, parsed : BOOLEAN, msg_dt_ok : BOOLEAN,
   llm : LlmRuns, deepRes : {"fail", "keep", "spam"}, agentOK : BOOLEAN]

(* replies that are never asked for are left out: nothing follows a 404, a
   parse that raised or a Date header that does not parse *)
NoReplies(in) ==
  /\ in.llm = [i \in 1..LlamaRetries |-> RequestError]
  /\ in.deepRes = "fail" /\ in.agentOK

ProcInputs ==
  {in \in AllProcInputs :
     /\ ~in.found => (in.payload = 1 /\ in.parsed /\ in.msg_dt_ok /\ NoReplies(in))
     /\ ~in.parsed => (in.msg_dt_ok /\ NoReplies(in))
     /\ ~in.msg_dt_ok => NoReplies(in)}

(* what one call did: the tables and spam set after it, how it ended, the
   number of fetch calls, the payload it parsed (NoRaw if it parsed none),
   the shallow attempts it made, whether deep_analyze and handle_action ran *)
ProcOut(em, raw, spam, how, fetches, saw, llm, deep, action) ==
  [emails |-> em, raw_messages |-> raw, spammers |-> spam, how |-> how,
   fetches |-> fetches, saw |-> saw, llm |-> llm, deep |-> deep, action |-> action]

(* faulty variant: the sender is not remembered *)
AddSpammerNot(spam, frm) == spam

(* line 89: spammers.add(frm) *)
AddSpammer(spam, frm) == spam \cup {frm}

(* the part of process_message after the raw payload is in hand; withAgent
   is FALSE for src/main.py, which has no action executor *)
ClassifyAndStore(em, raw1, spam, mid, in, fetches, payload, withAgent) ==
  LET frm == MsgFrom(mid)
  IN IF ~in.parsed
     THEN ProcOut(em, raw1, spam, "raised", fetches, NoRaw, <<>>, FALSE, FALSE)
     ELSE IF frm \in spam
     THEN ProcOut(em, raw1, spam, "spammer", fetches, payload, <<>>, FALSE, FALSE)
     ELSE
     LET init == initial_classify(in.msg_dt_ok, in.llm)
         llm == IF init.called THEN in.llm ELSE <<>>
         rec0 == Rec(mid, init.obj.category, init.obj.importance,
                     init.obj.action, init.obj.summary, "", 0)
     IN IF init.raised
        THEN ProcOut(em, raw1, spam, "raised", fetches, payload, llm, FALSE, FALSE)
        ELSE IF init.obj.category = "Spam"
        THEN ProcOut(mark_email(em, rec0), raw1, AddSpammer(spam, frm), "spam",
                     fetches, payload, llm, FALSE, FALSE)
        ELSE
        LET flagged == NeedsDeep(init.obj)
            deep == deep_analyze(init.obj, in.deepRes)
            rec == IF flagged THEN update(rec0, deep) ELSE rec0
            stored == mark_email(em, rec)
        IN IF ~withAgent
           THEN ProcOut(stored, raw1, spam, "stored", fetches, payload, llm,
                        flagged, FALSE)
           ELSE IF ~in.agentOK
           THEN ProcOut(stored, raw1, spam, "raised", fetches, payload, llm,
                        flagged, TRUE)
           ELSE ProcOut(mark_email(stored, rec), raw1, spam, "stored",
                        fetches, payload, llm, flagged, TRUE)

(* lines 62-68: the cached payload, or one fetch and the cache write *)
FetchAndProcess(em, raw, spam, mid, in, withAgent) ==
  LET cached == load_raw_message(raw, mid)
  IN IF cached # NoRaw
     THEN ClassifyAndStore(em, raw, spam, mid, in, 0, cached, withAgent)
     ELSE IF ~in.found
     THEN ProcOut(em, raw, spam, "not_found", 1, NoRaw, <<>>, FALSE, FALSE)
     ELSE ClassifyAndStore(em, cache_raw_message(raw, mid, in.payload), spam,
                           mid, in, 1, in.payload, withAgent)

process_message(em, raw, spam, mid, in) ==
  FetchAndProcess(em, raw, spam, mid, in, TRUE)

(* src/main.py process_message: the same without handle_action *)
legacy_process_message(em, raw, spam, mid, in) ==
  FetchAndProcess(em, raw, spam, mid, in, FALSE)

(***************************************************************************)
(* gmail_client.py: fetch_history_with_retry                               *)
(***************************************************************************)
(* statuses[i] is the HTTP status of the i-th history().list call *)
RetryDelayCap == 30

(* how the call ended, the history().list calls it made and the seconds it
   slept after each 503 *)
HistoryEnd(out, calls, sleeps) == [out |-> out, calls |-> calls, sleeps |-> sleeps]

RECURSIVE HistoryAttempt(_, _, _, _)
HistoryAttempt(statuses, attempt, delay, sleeps) ==
  IF attempt > HistoryAttempts THEN HistoryEnd("RuntimeError", attempt - 1, sleeps)
  ELSE IF statuses[attempt] = 200 THEN HistoryEnd("ok", attempt, sleeps)
  ELSE IF statuses[attempt] = 503
  THEN HistoryAttempt(statuses, attempt + 1,
                      IF delay * 2 < RetryDelayCap THEN delay * 2 ELSE RetryDelayCap,
                      Append(sleeps, delay))
  ELSE HistoryEnd("HttpError", attempt, sleeps)

fetch_history_with_retry(statuses) == HistoryAttempt(statuses, 1, 1, <<>>)

StatusSeqs ==
  {[i \in 1..HistoryAttempts |-> IF i <= k THEN 503 ELSE last] :
     k \in 0..HistoryAttempts, last \in {200, 404}}

(***************************************************************************)
(* src/src/mailbot/main.py: main_loop                                      *)
(***************************************************************************)
HistoryIds == 1..MaxHist
AcctMsgs(a) == {m \in Msgs : MsgTo(m) = a}
MidSeqs(a) ==
  {<<>>} \cup {<<m>> : m \in AcctMsgs(a)}
         \cup {p \in AcctMsgs(a) \X AcctMsgs(a) : p[1] # p[2]}
MbResps(a) ==
  {[ok |-> TRUE, hasId |-> TRUE, historyId |-> h, mids |-> ms] :
     h \in HistoryIds, ms \in MidSeqs(a)}
  \cup {[ok |-> TRUE, hasId |-> FALSE, historyId |-> 0, mids |-> ms] : ms \in MidSeqs(a)}

(* set-up, per account: messages().list and the ids not yet in emails *)
MbBackfillFrom(Recents) ==
  /\ program = "mailbot" /\ pc = "backfill" /\ acctIdx \in Accounts
  /\ \E recent \in Recents :
       pending' = SelectSeq(recent, LAMBDA m : ~HasEmail(emails, m))
  /\ pc' = "backfill_proc"
  /\ UNCHANGED <<program, mailbox, classifier, updates, listener, acctIdx, resp, any_important, loopNow, last_planning,
                 clock, history_ids, dbVars, ghostVars, mbVars, agVars>>

(* set-up, per account: the cursor starts at the mailbox tip *)
MbInitCursorAt(Tips) ==
  /\ program = "mailbot" /\ pc = "backfill_proc" /\ pending = <<>>
  /\ \E tip \in Tips : history_ids' = [history_ids EXCEPT ![acctIdx] = tip]
  /\ acctIdx' = IF acctIdx = NumAccounts THEN 1 ELSE acctIdx + 1
  /\ pc' = IF acctIdx = NumAccounts THEN "top" ELSE "backfill"
  /\ lastProc' = NoProc
  /\ UNCHANGED <<program, mailbox, classifier, updates, listener, pending, resp, any_important, loopNow, last_planning,
                 clock, dbVars, ghostVars, spammers, lastPoll, agVars>>

(* the historyId in the payload the mailbox holds for a message *)
MsgHist(m) == ((m - 1) % MaxHist) + 1

(* the record of one process_message call *)
ProcRecord(mid, in, out, rawBefore, spamBefore) ==
  [ran |-> TRUE, fn |-> "process_message", mid |-> mid, how |-> out.how,
   called |-> out.llm # <<>>,
   exhausted |-> \A i \in DOMAIN in.llm : in.llm[i] \in Failures,
   deep |-> out.deep, action |-> out.action,
   fetches |-> out.fetches, saw |-> out.saw, rowBefore |-> rawBefore[mid],
   spamIn |-> spamBefore, spamOut |-> out.spammers,
   given |-> NoGiven, again |-> FALSE, fresh |-> FALSE, n |-> 0]

(* one process_message call, from the backfill or from the poll loop; both
   wrap it in "except Exception" *)
MbProcess ==
  /\ program = "mailbot" /\ pc \in {"backfill_proc", "proc"} /\ pending # <<>>
  /\ \E in \in ProcInputs :
     \E out \in {process_message(emails, raw_messages, spammers[acctIdx],
                                 Head(pending), in)} :
       LET mid == Head(pending)
       IN /\ emails' = out.emails
          /\ raw_messages' = out.raw_messages
          /\ spammers' = [spammers EXCEPT ![acctIdx] = out.spammers]
          /\ in.payload = MsgHist(mid)
          /\ lastProc' = ProcRecord(mid, in, out, raw_messages, spammers[acctIdx])
  /\ pending' = Tail(pending)
  /\ lastPoll' = IF pc = "proc"
                 THEN [lastPoll EXCEPT !.processed = @ \cup {acctIdx}]
                 ELSE lastPoll
  /\ UNCHANGED <<program, mailbox, classifier, updates, listener, pc, acctIdx, resp, any_important, loopNow, last_planning,
                 clock, history_ids, tasks, ghostVars, agVars>>

MbLoopTop ==
  /\ program = "mailbot" /\ pc = "top"
  /\ pc' = "poll" /\ acctIdx' = 1
  /\ lastPoll' = NoPoll /\ lastProc' = NoProc
  /\ UNCHANGED <<program, mailbox, classifier, updates, listener, pending, resp, any_important, loopNow, last_planning,
                 clock, history_ids, dbVars, ghostVars, spammers, agVars>>

(* the record of one fetch_history_with_retry call *)
CallRecord(statuses, end, traced) ==
  IF traced
  THEN [made |-> TRUE, statuses |-> statuses, out |-> end.out, calls |-> end.calls,
        sleeps |-> end.sleeps, acct |-> acctIdx, n |-> 1 - lastPoll.call.n]
  ELSE lastPoll.call

(* one iteration of "for acct in ACCOUNTS" up to the records *)
MbPollWith(Resps, traced) ==
  /\ program = "mailbot" /\ pc = "poll" /\ acctIdx \in Accounts
  /\ \E statuses \in StatusSeqs, r \in Resps :
       LET end == fetch_history_with_retry(statuses)
           out == end.out
           start_id == history_ids[acctIdx]
           call == CallRecord(statuses, end, traced)
       IN IF out = "RuntimeError"
          THEN /\ pc' = "crashed"
               /\ lastPoll' = [lastPoll EXCEPT !.failed = @ \cup {acctIdx},
                                               !.call = call]
               /\ UNCHANGED <<acctIdx, pending, resp>>
          ELSE IF out = "HttpError"
          THEN /\ acctIdx' = acctIdx + 1
               /\ lastPoll' = [lastPoll EXCEPT !.failed = @ \cup {acctIdx},
                                               !.call = call]
               /\ UNCHANGED <<pc, pending, resp>>
          ELSE IF r.mids = <<>>
          THEN /\ acctIdx' = acctIdx + 1
               /\ lastPoll' = IF r.hasId /\ r.historyId > start_id
                              THEN [lastPoll EXCEPT !.quiet = @ \cup {<<acctIdx, r.historyId>>},
                                                    !.call = call]
                              ELSE [lastPoll EXCEPT !.call = call]
               /\ UNCHANGED <<pc, pending, resp>>
          ELSE /\ pc' = "proc" /\ pending' = r.mids /\ resp' = r
               /\ lastPoll' = [lastPoll EXCEPT !.call = call]
               /\ UNCHANGED acctIdx
  /\ UNCHANGED <<program, mailbox, classifier, updates, listener, any_important, loopNow, last_planning, clock,
                 history_ids, dbVars, ghostVars, spammers, lastProc, agVars>>

(* "advance the cursor once done" *)
MbAdvance ==
  /\ program = "mailbot" /\ pc = "proc" /\ pending = <<>>
  /\ LET start_id == history_ids[acctIdx]
         new_hist == IF resp.hasId THEN resp.historyId ELSE start_id
     IN IF new_hist # start_id
        THEN /\ history_ids' = [history_ids EXCEPT ![acctIdx] = new_hist]
             /\ lastPoll' = [lastPoll EXCEPT !.moved = @ \cup {acctIdx}]
        ELSE UNCHANGED <<history_ids, lastPoll>>
  /\ pc' = "poll" /\ acctIdx' = acctIdx + 1 /\ resp' = NoResp
  /\ lastProc' = NoProc
  /\ UNCHANGED <<program, mailbox, classifier, updates, listener, pending, any_important, loopNow, last_planning, clock,
                 dbVars, ghostVars, spammers, agVars>>

(* time.sleep(POLL_INTERVAL_SECONDS) *)
MbSleep ==
  /\ program = "mailbot" /\ pc = "poll" /\ acctIdx > NumAccounts
  /\ pc' = "top"
  /\ UNCHANGED <<program, mailbox, classifier, updates, listener, acctIdx, pending, resp, any_important, loopNow,
                 last_planning, clock, history_ids, dbVars, ghostVars, mbVars, agVars>>

(* the process is started again after it died: main_loop from its first line *)
MbRestart ==
  /\ program = "mailbot" /\ pc = "crashed"
  /\ pc' = "backfill" /\ acctIdx' = 1 /\ pending' = <<>> /\ resp' = NoResp
  /\ history_ids' = [a \in Accounts |-> 0]
  /\ spammers' = [a \in Accounts |-> {}]
  /\ lastProc' = NoProc /\ lastPoll' = NoPoll
  /\ UNCHANGED <<program, mailbox, classifier, updates, listener, any_important, loopNow, last_planning, clock,
                 dbVars, ghostVars, agVars>>

InitMailbot ==
  /\ program = "mailbot" /\ pc = "backfill"
  /\ acctIdx = 1 /\ pending = <<>> /\ resp = NoResp /\ any_important = FALSE
  /\ loopNow = <<0, 0>> /\ clock = <<0, 0>>
  /\ last_planning = 0
  /\ history_ids = [a \in Accounts |-> 0]
  /\ emails = <<>> /\ raw_messages = RawOf(NoRaw)
  /\ tasks = <<>>
  /\ lastDispatch = NoDispatch /\ lastRun = NoRun /\ lastAdd = NoAdd
  /\ MailbotIdle /\ AgentIdle

MbPollAccount == MbPollWith(MbResps(acctIdx), FALSE)
MbBackfillList == MbBackfillFrom(MidSeqs(acctIdx))
MbInitCursor == MbInitCursorAt(HistoryIds)

NextMailbot ==
  \/ MbBackfillList \/ MbInitCursor \/ MbProcess \/ MbLoopTop
  \/ MbPollAccount \/ MbAdvance \/ MbSleep \/ MbRestart

SpecMailbot == InitMailbot /\ [][NextMailbot]_vars

(***************************************************************************)
(* The poll loop over a mailbox with nothing new: every outcome of the     *)
(* history call, account after account, cycle after cycle.                 *)
(***************************************************************************)
QuietMbResps ==
  {[ok |-> TRUE, hasId |-> TRUE, historyId |-> h, mids |-> <<>>] : h \in HistoryIds}

HsPollAccount == MbPollWith(QuietMbResps, TRUE)

(* the process is started again; the set-up finds nothing to backfill *)
HsRestart ==
  /\ program = "mailbot" /\ pc = "crashed"
  /\ pc' = "top" /\ acctIdx' = 1 /\ pending' = <<>> /\ resp' = NoResp
  /\ history_ids' \in [Accounts -> HistoryIds]
  /\ spammers' = [a \in Accounts |-> {}]
  /\ lastProc' = NoProc /\ lastPoll' = [NoPoll EXCEPT !.call = lastPoll.call]
  /\ UNCHANGED <<program, mailbox, classifier, updates, listener, any_important, loopNow, last_planning, clock,
                 dbVars, ghostVars, agVars>>

HsLoopTop ==
  /\ MbLoopTop
  /\ lastPoll'.call = NoCall

InitHistory ==
  /\ program = "mailbot" /\ pc = "top"
  /\ acctIdx = 1 /\ pending = <<>> /\ resp = NoResp /\ any_important = FALSE
  /\ loopNow = <<0, 0>> /\ clock = <<0, 0>>
  /\ last_planning = 0
  /\ history_ids \in [Accounts -> HistoryIds]
  /\ emails = <<>> /\ raw_messages = RawOf(NoRaw)
  /\ tasks = <<>>
  /\ lastDispatch = NoDispatch /\ lastRun = NoRun /\ lastAdd = NoAdd
  /\ MailbotIdle /\ AgentIdle

NextHistory == HsLoopTop \/ HsPollAccount \/ MbSleep \/ HsRestart

SpecHistory == InitHistory /\ [][NextHistory]_vars

HistoryCalled == lastPoll'.call.made /\ lastPoll'.call.n # lastPoll.call.n

RECURSIVE Pow2(_)
Pow2(k) == IF k = 0 THEN 1 ELSE 2 * Pow2(k - 1)

(* C30: fetch_history_with_retry makes at most HistoryAttempts calls, goes on
   only after a 503, sleeping 1, 2, 4, ... seconds and never more than 30,
   and raises any other error at its first occurrence; when every attempt
   failed the loop leaves the account for this cycle and goes on. *)
C30_RetryThenSkip ==
  [][HistoryCalled =>
       LET c == lastPoll'.call
       IN /\ c.calls \in 1..HistoryAttempts
          /\ \A i \in 1..(c.calls - 1) : c.statuses[i] = 503
          /\ Len(c.sleeps) = Cardinality({i \in 1..c.calls : c.statuses[i] = 503})
          /\ \A i \in DOMAIN c.sleeps :
               c.sleeps[i] = Pow2(i - 1) /\ c.sleeps[i] <= RetryDelayCap
          /\ c.statuses[c.calls] \notin {200, 503} <=> c.out = "HttpError"
          /\ c.out # "ok" =>
               /\ pc' = "poll" /\ acctIdx' = acctIdx + 1
               /\ history_ids' = history_ids]_vars

(* five 503 answers in a row: the call gave up and the process died *)
C30_Witness ==
  /\ lastPoll.call.made /\ lastPoll.call.out = "RuntimeError"
  /\ lastPoll.call.calls = HistoryAttempts
  /\ lastPoll.call.sleeps = <<1, 2, 4, 8, 16>>
  /\ pc = "crashed"

(* what holds of the call itself, the loop's reaction left aside *)
RetryDiscipline ==
  [][HistoryCalled =>
       LET c == lastPoll'.call
       IN /\ c.calls \in 1..HistoryAttempts
          /\ \A i \in 1..(c.calls - 1) : c.statuses[i] = 503
          /\ \A i \in DOMAIN c.sleeps :
               c.sleeps[i] = Pow2(i - 1) /\ c.sleeps[i] <= RetryDelayCap
          /\ c.statuses[c.calls] \notin {200, 503} <=> c.out = "HttpError"
          /\ c.out = "HttpError" => (pc' = "poll" /\ acctIdx' = acctIdx + 1)]_vars

(***************************************************************************)
(* One run of main_loop against mailboxes that receive mail while it runs: *)
(* messages().list returns the messages that have arrived, getProfile the  *)
(* mailbox tip, history().list the messages added after startHistoryId.    *)
(***************************************************************************)
Arrived(m) == mailbox[m].hist # 0

(* lines 196-202: the account's INBOX, oldest first *)
messages_list(a) ==
  LET ids == {m \in AcctMsgs(a) : Arrived(m)}
  IN [i \in 1..Cardinality(ids) |->
        CHOOSE m \in ids : Cardinality({x \in ids : mailbox[x].hist < mailbox[m].hist}) = i - 1]

(* line 232: profile["historyId"] *)
getProfile(a) ==
  LET hs == {mailbox[m].hist : m \in AcctMsgs(a)}
  IN CHOOSE h \in hs \cup {0} : \A x \in hs : x <= h

(* faulty variant: the record at startHistoryId itself is reported too *)
history_list_inclusive(a, start) ==
  LET ids == {m \in AcctMsgs(a) : Arrived(m) /\ mailbox[m].hist >= start}
  IN [ok |-> TRUE, hasId |-> TRUE, historyId |-> getProfile(a),
      mids |-> [i \in 1..Cardinality(ids) |->
                  CHOOSE m \in ids :
                    Cardinality({x \in ids : mailbox[x].hist < mailbox[m].hist}) = i - 1]]

(* lines 251-257: the messageAdded records after startHistoryId *)
history_list(a, start) ==
  LET ids == {m \in AcctMsgs(a) : Arrived(m) /\ mailbox[m].hist > start}
  IN [ok |-> TRUE, hasId |-> TRUE, historyId |-> getProfile(a),
      mids |-> [i \in 1..Cardinality(ids) |->
                  CHOOSE m \in ids :
                    Cardinality({x \in ids : mailbox[x].hist < mailbox[m].hist}) = i - 1]]

(* a message is delivered to its account's mailbox *)
Arrive ==
  /\ program = "mailbot"
  /\ \E m \in Msgs :
       /\ ~Arrived(m)
       /\ mailbox' = [mailbox EXCEPT ![m] =
                        [hist |-> MsgHist(m),
                         gap |-> pc = "backfill_proc" /\ acctIdx = MsgTo(m)]]
  /\ UNCHANGED <<program, classifier, updates, listener, loopVars, clock, history_ids,
                 dbVars, ghostVars, mbVars, agVars>>

SuBackfillList == MbBackfillFrom({messages_list(acctIdx)})
SuInitCursor == MbInitCursorAt({getProfile(acctIdx)})
SuPollAccount == MbPollWith({history_list(acctIdx, history_ids[acctIdx])}, FALSE)

InitStartup ==
  /\ program = "mailbot" /\ pc = "backfill"
  /\ acctIdx = 1 /\ pending = <<>> /\ resp = NoResp /\ any_important = FALSE
  /\ loopNow = <<0, 0>> /\ clock = <<0, 0>>
  /\ last_planning = 0
  /\ history_ids = [a \in Accounts |-> 0]
  /\ emails = <<>> /\ raw_messages = RawOf(NoRaw)
  /\ tasks = <<>>
  /\ lastDispatch = NoDispatch /\ lastRun = NoRun /\ lastAdd = NoAdd
  /\ spammers = [a \in Accounts |-> {}]
  /\ lastProc = NoProc /\ lastPoll = NoPoll
  /\ mailbox \in [Msgs -> {NotArrived}]
       \cup {[m \in Msgs |-> IF m \in S THEN [hist |-> MsgHist(m), gap |-> FALSE]
                                      ELSE NotArrived] : S \in SUBSET Msgs}
  /\ classifier = NoChat
  /\ AgentIdle

NextStartup ==
  \/ Arrive \/ SuBackfillList \/ MbProcess \/ SuInitCursor
  \/ MbLoopTop \/ SuPollAccount \/ MbAdvance \/ MbSleep

SpecStartup == InitStartup /\ [][NextStartup]_vars

InPending(m) == \E i \in DOMAIN pending : pending[i] = m

(* C33: a message that arrived after its account's recent-message list was
   taken and before the tip was read is never listed for processing, never
   processed and never stored during the run. *)
C33_StartupGapLost ==
  \A m \in Msgs :
    mailbox[m].gap =>
      /\ ~InPending(m)
      /\ ~(lastProc.ran /\ lastProc.mid = m)
      /\ ~HasEmail(emails, m)

(* a message arrived in the gap; a whole poll cycle in which every history
   call succeeded has passed, the cursor stands at the message's historyId
   and nothing is stored for it *)
C33_Witness ==
  /\ pc = "poll" /\ acctIdx > NumAccounts /\ lastPoll.failed = {}
  /\ \E m \in Msgs :
       /\ mailbox[m].gap /\ ~HasEmail(emails, m)
       /\ history_ids[MsgTo(m)] = mailbox[m].hist

PollProcessStep ==
  program = "mailbot" /\ pc = "proc" /\ pending # <<>> /\ pending' = Tail(pending)

CursorPassesReported ==
  [][/\ (pc = "proc" /\ pc' = "poll") =>
          \A i \in DOMAIN resp.mids :
             history_ids'[acctIdx] >= mailbox[resp.mids[i]].hist
     /\ pc \in {"poll", "proc"} => \A a \in Accounts : history_ids'[a] >= history_ids[a]
     /\ (pc = "poll" /\ pc' = "proc") =>
          \A i \in DOMAIN pending' :
             mailbox[pending'[i]].hist > history_ids[acctIdx]]_vars

(* C34: when process_message raises for a message a history call reported,
   no record is stored for the message, the cursor moves past it once the
   response is done, the cursor never moves back and a history call lists
   only messages beyond the cursor, so no later cycle processes it again. *)
C34_RaisedMessageDropped ==
  /\ [][(PollProcessStep /\ lastProc'.how = "raised") =>
          ~HasEmail(emails', Head(pending))]_vars
  /\ CursorPassesReported

(* the action executor raised for a message of a poll: the error was caught
   with the message's record already stored *)
C34_Witness ==
  /\ program = "mailbot" /\ pc = "proc"
  /\ lastProc.ran /\ lastProc.how = "raised" /\ lastProc.action
  /\ HasEmail(emails, lastProc.mid)
  /\ mailbox[lastProc.mid].hist > history_ids[MsgTo(lastProc.mid)]

(***************************************************************************)
(* Cursor and classification claims, under SpecMailbot                     *)
(***************************************************************************)
Polling == pc \in {"poll", "proc"}

(* C4: while the poll loop runs, no account's cursor in history_ids ever
   decreases, whatever historyId the history response carries *)
C4_CursorNeverDecreases ==
  [][Polling => \A a \in Accounts : history_ids'[a] >= history_ids[a]]_vars

(* C5: at the end of a poll cycle, every account whose history call succeeded
   with no changes and a historyId H above its cursor has its cursor at H *)
C5_QuietPollAdvances ==
  pc = "top" => \A q \in lastPoll.quiet : history_ids[q[1]] = q[2]

(* C6: an account whose history call failed in this cycle keeps its cursor,
   has none of its messages processed, and the cycle goes on to the
   remaining accounts *)
C6_FailedPollSkipsAccount ==
  \A a \in lastPoll.failed :
    /\ a \notin lastPoll.moved
    /\ a \notin lastPoll.processed
    /\ pc # "crashed"

(* C7: when every attempt of the shallow pass failed or returned no JSON
   object, the record stored for the message is Spam with importance 1 and
   empty action and summary, and neither the deep pass nor handle_action
   was called for it *)
C7_ShallowFallback ==
  (lastProc.ran /\ lastProc.called /\ lastProc.exhausted) =>
     /\ HasEmail(emails, lastProc.mid)
     /\ EmailRow(emails, lastProc.mid).category = "Spam"
     /\ EmailRow(emails, lastProc.mid).importance = 1
     /\ EmailRow(emails, lastProc.mid).action = ""
     /\ EmailRow(emails, lastProc.mid).summary = ""
     /\ ~lastProc.deep /\ ~lastProc.action

(* a message whose shallow pass was called and failed on every attempt was
   stored by the Spam branch *)
C7_Witness ==
  /\ lastProc.ran /\ lastProc.called /\ lastProc.exhausted
  /\ lastProc.how = "spam"
  /\ HasEmail(emails, lastProc.mid)

(* the historyIds held by the raw payloads of the records stored for an
   account *)
StoredWatermarks(em, raw, a) ==
  {raw[m] : m \in {x \in Msgs : MsgTo(x) = a /\ HasEmail(em, x) /\ raw[x] > 0}}

Highest(S) == CHOOSE h \in S : \A k \in S : k <= h

CursorInitialised == program = "mailbot" /\ pc = "backfill_proc" /\ pc' # "backfill_proc"

(* C18: at startup the cursor of an account that has stored records is set
   to the highest historyId recoverable from them; the mailbox tip is used
   only for an account with none *)
C18_StartupCursor ==
  [][(CursorInitialised /\ StoredWatermarks(emails, raw_messages, acctIdx) # {})
       => history_ids'[acctIdx] =
            Highest(StoredWatermarks(emails, raw_messages, acctIdx))]_vars

(* the first account has stored records and its cursor was set past all of
   their historyIds *)
C18_Witness ==
  /\ program = "mailbot" /\ pc = "backfill" /\ acctIdx = 2
  /\ StoredWatermarks(emails, raw_messages, 1) # {}
  /\ history_ids[1] > Highest(StoredWatermarks(emails, raw_messages, 1))

(***************************************************************************)
(* The store under arbitrary calls: process_message for any message of any *)
(* account, mark_email with any record, the profile builder's              *)
(* ensure_raw_cached on the same database, and a new process start         *)
(***************************************************************************)
(* the collaborator outputs tried on the emails table: the payload the
   mailbox holds for the message, and a model that never answers, says Spam
   at once, or says Important at once *)
Never == [i \in 1..LlamaRetries |-> RequestError]
AtOnce(o) == [i \in 1..LlamaRetries |-> Reply(<<Junk>> \o Json(o))]

StoreInputs ==
  {in \in [found : BOOLEAN, payload : 1..MaxHist, parsed : BOOLEAN,
           msg_dt_ok : BOOLEAN,
           llm : {Never, AtOnce(Cls("Spam", 2)), AtOnce(Cls("Important", 5))},
           deepRes : {"fail", "keep", "spam"}, agentOK : BOOLEAN] :
     /\ in \in ProcInputs
     /\ in.llm # AtOnce(Cls("Important", 5)) => (in.deepRes = "fail" /\ in.agentOK)}

(* the collaborator outputs tried on the raw_messages table: any payload,
   and a model that never answers *)
CacheInputs ==
  {in \in [found : BOOLEAN, payload : 1..MaxHist, parsed : BOOLEAN,
           msg_dt_ok : BOOLEAN, llm : {Never}, deepRes : {"fail"},
           agentOK : {TRUE}] : in \in ProcInputs}

(* what the caller of process_message / ensure_raw_cached records about the
   call: the inputs, whether the call before it was the same call, and a
   call parity *)
StoreRecord(r, in) ==
  [r EXCEPT !.given = in,
            !.again = lastProc.fresh /\ lastProc.fn = r.fn
                        /\ lastProc.mid = r.mid /\ lastProc.given = in,
            !.fresh = TRUE,
            !.n = 1 - lastProc.n]

StProcess(Inputs) ==
  /\ program = "store"
  /\ \E mid \in Msgs, in \in Inputs :
       \E out \in {process_message(emails, raw_messages, spammers[MsgTo(mid)], mid, in)} :
          /\ emails' = out.emails
          /\ raw_messages' = out.raw_messages
          /\ spammers' = [spammers EXCEPT ![MsgTo(mid)] = out.spammers]
          /\ lastProc' = StoreRecord(ProcRecord(mid, in, out, raw_messages,
                                                spammers[MsgTo(mid)]), in)
  /\ UNCHANGED <<program, mailbox, classifier, updates, listener, loopVars, clock, history_ids, tasks, ghostVars,
                 lastPoll, agVars>>

StMarkEmail ==
  /\ program = "store"
  /\ \E m \in Msgs : \E rec \in StoredRows(m) :
       /\ emails' = mark_email(emails, rec)
       /\ lastProc' = IF lastProc.mid = m THEN [lastProc EXCEPT !.fresh = FALSE]
                                            ELSE lastProc
  /\ UNCHANGED <<program, mailbox, classifier, updates, listener, loopVars, clock, history_ids, raw_messages, tasks,
                 ghostVars, spammers, lastPoll, agVars>>

(* profile_builder.py: the cached payload, or one fetch whose result is
   cached whatever it is; json.dumps(None) is the text "null" *)
ensure_raw_cached(raw, msg_id, found, payload) ==
  LET cached == load_raw_message(raw, msg_id)
      fetched == IF found THEN payload ELSE NoRaw
  IN IF cached # NoRaw
     THEN [raw_messages |-> raw, ret |-> cached, fetches |-> 0]
     ELSE [raw_messages |-> cache_raw_message(raw, msg_id,
                              IF fetched = NoRaw THEN NullRaw ELSE fetched),
           ret |-> fetched, fetches |-> 1]

(* one call from build_profiles; ensure_raw_cached returns the None of a 404
   to it *)
StEnsureRawCached ==
  /\ program = "store"
  /\ \E mid \in Msgs, in \in {i \in CacheInputs : i.parsed /\ i.msg_dt_ok} :
       \E out \in {ensure_raw_cached(raw_messages, mid, in.found, in.payload)} :
          /\ raw_messages' = out.raw_messages
          /\ lastProc' = StoreRecord(
               [NoProc EXCEPT !.ran = TRUE, !.fn = "ensure_raw_cached",
                              !.mid = mid,
                              !.how = IF out.ret = NoRaw THEN "not_found" ELSE "returned",
                              !.fetches = out.fetches, !.saw = out.ret,
                              !.rowBefore = raw_messages[mid]], in)
  /\ UNCHANGED <<program, mailbox, classifier, updates, listener, loopVars, clock, history_ids, emails, tasks,
                 ghostVars, spammers, lastPoll, agVars>>

(* a new process start: the spam sets are rebuilt empty, the tables stay *)
StRestart ==
  /\ program = "store"
  /\ lastProc.ran
  /\ spammers' = [a \in Accounts |-> {}]
  /\ lastProc' = [NoProc EXCEPT !.n = lastProc.n]
  /\ UNCHANGED <<program, mailbox, classifier, updates, listener, loopVars, clock, history_ids, dbVars, ghostVars,
                 lastPoll, agVars>>

InitStore ==
  /\ program = "store" /\ pc = "top"
  /\ acctIdx = 1 /\ pending = <<>> /\ resp = NoResp /\ any_important = FALSE
  /\ loopNow = <<0, 0>> /\ clock = <<0, 0>>
  /\ last_planning = 0
  /\ history_ids = [a \in Accounts |-> 0]
  /\ emails = <<>> /\ raw_messages = RawOf(NoRaw)
  /\ tasks = <<>>
  /\ lastDispatch = NoDispatch /\ lastRun = NoRun /\ lastAdd = NoAdd
  /\ MailbotIdle /\ AgentIdle

StoreProcess ==
  /\ StProcess(StoreInputs)
  /\ lastProc'.given.found => lastProc'.given.payload = MsgHist(lastProc'.mid)

NextStore == StoreProcess \/ StMarkEmail \/ StRestart

SpecStore == InitStore /\ [][NextStore]_vars

(***************************************************************************)
(* Store claims, under SpecStore                                           *)
(***************************************************************************)
OneRowPerMsgId(em) ==
  \A i, j \in DOMAIN em : em[i].msg_id = em[j].msg_id => i = j

(* the call recorded in r wrote a record for its message *)
WroteRecord(r) ==
  r.ran /\ r.fn = "process_message"
        /\ (r.how \in {"stored", "spam"} \/ (r.how = "raised" /\ r.action))

(* C11: after any sequence of process_message and mark_email calls the
   emails table holds at most one row per msg_id, and a process_message
   call that follows a call for the same msg_id with equal collaborator
   outputs, the first of which wrote a record, leaves that msg_id's stored
   record as the first call left it *)
C11_Idempotent ==
  [][/\ OneRowPerMsgId(emails')
     /\ (lastProc'.ran /\ lastProc'.n # lastProc.n /\ lastProc'.again
           /\ WroteRecord(lastProc))
          => EmailRow(emails', lastProc'.mid) = EmailRow(emails, lastProc'.mid)]_vars

(* a message was processed a second time with equal outputs and its record
   was written again, beside the other message's record *)
C11_Witness ==
  /\ lastProc.again /\ lastProc.how = "stored" /\ lastProc.deep
  /\ HasEmail(emails, lastProc.mid)
  /\ Len(emails) = NumMsgs

(* the object the shallow pass returned for the recorded inputs *)
ShallowOf(in) == initial_classify(in.msg_dt_ok, in.llm).obj

(* C19: when the shallow pass labels a message Spam, the record stored for
   it holds the shallow category, importance, action and summary with an
   empty deep summary, neither the deep pass nor the action executor ran,
   and the sender is in the account's spam set after the call *)
C19_SpamShortCircuit ==
  [][(lastProc'.ran /\ lastProc'.n # lastProc.n /\ lastProc'.called
        /\ ShallowOf(lastProc'.given).category = "Spam") =>
       /\ lastProc'.how = "spam"
       /\ EmailRow(emails', lastProc'.mid) =
            Rec(lastProc'.mid, "Spam", ShallowOf(lastProc'.given).importance,
                ShallowOf(lastProc'.given).action,
                ShallowOf(lastProc'.given).summary, "", 0)
       /\ ~lastProc'.deep /\ ~lastProc'.action
       /\ MsgFrom(lastProc'.mid) \in spammers'[MsgTo(lastProc'.mid)]]_vars

(* a message of the second account was labelled Spam by a model that
   answered, over a record stored for it before; the first account's set
   is empty *)
C19_Witness ==
  /\ lastProc.ran /\ lastProc.how = "spam" /\ lastProc.mid = 2
  /\ lastProc.given.llm = AtOnce(Cls("Spam", 2))
  /\ EmailRow(emails, 2).category = "Spam" /\ EmailRow(emails, 2).importance = 2
  /\ spammers[MsgTo(2)] = {MsgFrom(2)} /\ spammers[MsgTo(1)] = {}

ProcessCalled == lastProc'.ran /\ lastProc'.n # lastProc.n /\ lastProc'.fn = "process_message"

(* C32: when every attempt of the shallow pass failed, the call stores the
   fallback Spam record and puts the sender in the account's spam set; the
   set only grows while the run lasts, and a call for a sender in the set makes
   no classification attempt and stores nothing. *)
C32_FallbackBlocksSender ==
  [][ProcessCalled =>
       /\ (lastProc'.called /\ lastProc'.exhausted) =>
            /\ lastProc'.how = "spam"
            /\ EmailRow(emails', lastProc'.mid) = Rec(lastProc'.mid, "Spam", 1, "", "", "", 0)
            /\ MsgFrom(lastProc'.mid) \in spammers'[MsgTo(lastProc'.mid)]
       /\ \A a \in Accounts : spammers[a] \subseteq spammers'[a]
       /\ MsgFrom(lastProc'.mid) \in spammers[MsgTo(lastProc'.mid)] =>
            (~lastProc'.called /\ emails' = emails)]_vars

(* the fallback record of an earlier call is stored, its sender is in the
   set, and the call just made for that sender was dropped unclassified *)
C32_Witness ==
  /\ lastProc.ran /\ lastProc.fn = "process_message"
  /\ lastProc.how = "spammer" /\ ~lastProc.called
  /\ MsgFrom(lastProc.mid) \in lastProc.spamIn
  /\ HasEmail(emails, lastProc.mid)
  /\ EmailRow(emails, lastProc.mid) = Rec(lastProc.mid, "Spam", 1, "", "", "", 0)

(***************************************************************************)
(* src/main.py: the process_message call of the poll loop, for any message *)
(* found by a poll; an exception it raises ends the process                *)
(***************************************************************************)
LgProcessCall ==
  /\ program = "legacy_calls" /\ pc = "proc"
  /\ \E mid \in Msgs, in \in StoreInputs :
       \E out \in {legacy_process_message(emails, raw_messages, {}, mid, in)} :
          /\ in.found => in.payload = MsgHist(mid)
          /\ emails' = out.emails
          /\ raw_messages' = out.raw_messages
          /\ lastProc' = StoreRecord(ProcRecord(mid, in, out, raw_messages, {}), in)
          /\ pc' = IF out.how = "raised" THEN "crashed" ELSE "proc"
  /\ UNCHANGED <<program, mailbox, classifier, updates, listener, acctIdx, pending, resp, any_important, loopNow,
                 last_planning, clock, history_ids, tasks, ghostVars,
                 spammers, lastPoll, agVars>>

LgCallsRestart ==
  /\ program = "legacy_calls" /\ pc = "crashed"
  /\ pc' = "proc"
  /\ lastProc' = [NoProc EXCEPT !.n = lastProc.n]
  /\ UNCHANGED <<program, mailbox, classifier, updates, listener, acctIdx, pending, resp, any_important, loopNow,
                 last_planning, clock, history_ids, dbVars, ghostVars,
                 spammers, lastPoll, agVars>>

InitLegacyCalls ==
  /\ program = "legacy_calls" /\ pc = "proc"
  /\ acctIdx = 1 /\ pending = <<>> /\ resp = NoResp /\ any_important = FALSE
  /\ loopNow = <<0, 0>> /\ clock = <<0, 0>>
  /\ last_planning = 0
  /\ history_ids = [a \in Accounts |-> 1]
  /\ emails = <<>> /\ raw_messages = RawOf(NoRaw)
  /\ tasks = <<>>
  /\ lastDispatch = NoDispatch /\ lastRun = NoRun /\ lastAdd = NoAdd
  /\ MailbotIdle /\ AgentIdle

NextLegacyCalls == LgProcessCall \/ LgCallsRestart

SpecLegacyCalls == InitLegacyCalls /\ [][NextLegacyCalls]_vars

(* C20: in one run of a poll loop, a sender put in an account's spam set
   stays in the set handed to the later process_message calls for that
   account; a message whose sender is in the set handed to the call is
   dropped with no classification call and no record written; a call for
   one account leaves the other accounts' sets alone; the first call of a
   process gets an empty set *)
C20_SpamSetHolds ==
  [][(lastProc'.ran /\ lastProc'.n # lastProc.n /\ lastProc'.fn = "process_message") =>
       /\ (lastProc.ran /\ lastProc.fn = "process_message"
             /\ MsgTo(lastProc.mid) = MsgTo(lastProc'.mid))
            => lastProc.spamOut \subseteq lastProc'.spamIn
       /\ MsgFrom(lastProc'.mid) \in lastProc'.spamIn
            => (~lastProc'.called /\ emails' = emails)
       /\ \A b \in Accounts \ {MsgTo(lastProc'.mid)} : spammers'[b] = spammers[b]
       /\ ~lastProc.ran => lastProc'.spamIn = {}]_vars

(* the legacy loop classified a message again although the call before it,
   for the same account, had labelled its sender Spam *)
C20_Witness ==
  /\ program = "legacy_calls"
  /\ lastProc.ran /\ lastProc.again /\ lastProc.called /\ lastProc.how = "spam"
  /\ lastProc.spamIn = {}

(***************************************************************************)
(* src/main.py: the poll loop with new mail: every account polled, every   *)
(* message found passed to process_message, then the immediate planning    *)
(* run, the reminders and the periodic planning                            *)
(***************************************************************************)
(* line 537: acct.get("min_alert", 0); config_private_template.py gives no
   account a min_alert *)
LegacyMinAlert == 0

BusyResps ==
  QuietResps \cup {[ok |-> TRUE, hasId |-> FALSE, historyId |-> 0, mids |-> <<m>>] :
                     m \in Msgs}

CycleInputs ==
  {in \in [found : BOOLEAN, payload : 1..MaxHist, parsed : {TRUE}, msg_dt_ok : {TRUE},
           llm : {AtOnce(Cls("Spam", 2)), AtOnce(Cls("Social", 3)),
                  AtOnce(Cls("Important", 5))},
           deepRes : {"fail"}, agentOK : {TRUE}] : in \in ProcInputs}

(* what process_message returned: the record it stored, or None *)
Returned(out, mid) ==
  IF out.how \in {"spam", "stored"}
  THEN {[category |-> out.emails[i].category, importance |-> out.emails[i].importance] :
          i \in {j \in DOMAIN out.emails : out.emails[j].msg_id = mid}}
  ELSE {}

(* lines 527-538: one message of the account's history records *)
LgProcessPending ==
  /\ program = "legacy" /\ pc = "poll" /\ pending # <<>>
  /\ \E in \in CycleInputs :
       LET mid == Head(pending)
       IN \E out \in {legacy_process_message(emails, raw_messages, {}, mid, in)} :
          /\ in.payload = MsgHist(mid)
          /\ emails' = out.emails
          /\ raw_messages' = out.raw_messages
          /\ lastPoll' = [lastPoll EXCEPT !.records = @ \cup Returned(out, mid)]
          /\ any_important' =
               (any_important
                  \/ \E rec \in Returned(out, mid) :
                       rec.category = "Important" \/ rec.importance >= LegacyMinAlert)
          /\ pc' = IF out.how = "raised" THEN "crashed" ELSE "poll"
  /\ pending' = Tail(pending)
  /\ acctIdx' = IF Tail(pending) = <<>> THEN acctIdx + 1 ELSE acctIdx
  /\ UNCHANGED <<program, mailbox, classifier, updates, listener, resp, loopNow, last_planning, clock, history_ids, tasks,
                 ghostVars, spammers, lastProc, agVars>>

(* an account's history lists that account's messages *)
LgBusyPoll ==
  /\ LgPollAccount(BusyResps)
  /\ \A i \in DOMAIN pending' : MsgTo(pending'[i]) = acctIdx

InitLegacyCycle ==
  /\ program = "legacy" /\ pc = "top"
  /\ acctIdx = 1 /\ pending = <<>> /\ resp = NoResp /\ any_important = FALSE
  /\ loopNow = <<0, 0>> /\ clock = <<0, 0>>
  /\ last_planning = HoursOf(<<0, 0>>)
  /\ history_ids = [a \in Accounts |-> 0]
  /\ emails = <<>> /\ raw_messages = RawOf(NoRaw)
  /\ tasks = <<>>
  /\ lastDispatch = NoDispatch /\ lastRun = NoRun /\ lastAdd = NoAdd
  /\ MailbotIdle /\ AgentIdle

NextLegacyCycle ==
  \/ LgLoopTop
  \/ LgBusyPoll
  \/ LgProcessPending
  \/ LgAfterPoll
  \/ LgDispatch
  \/ LgPeriodic
  \/ LgQuietRestart

SpecLegacyCycle == InitLegacyCycle /\ [][NextLegacyCycle]_vars

AfterPollStep == program = "legacy" /\ pc = "poll" /\ acctIdx > NumAccounts /\ pc' # "poll"

(* C27: the immediate planning run of a cycle happens exactly when the cycle
   produced a record that is Important or of high importance; a cycle with no
   record, or with Spam or low-importance records only, has none. *)
C27_ImmediatePlanningTrigger ==
  [][AfterPollStep =>
       (PlannerRan <=>
          \E rec \in lastPoll.records :
             rec.category = "Important"
               \/ rec.importance >= CALENDAR_IMPORTANCE_THRESHOLD)]_vars

(* a cycle whose only record is Spam was followed by the immediate run *)
C27_Witness ==
  /\ program = "legacy" /\ pc = "dispatch"
  /\ lastPoll.records # {}
  /\ \A rec \in lastPoll.records : rec.category = "Spam"
  /\ any_important

CacheProcess == StProcess(CacheInputs)

NextCache == CacheProcess \/ StEnsureRawCached \/ StRestart

SpecCache == InitStore /\ [][NextCache]_vars

(***************************************************************************)
(* Cache claims, under SpecCache                                           *)
(***************************************************************************)
CallStep == lastProc'.ran /\ lastProc'.n # lastProc.n

(* C12: process_message calls the fetch collaborator only when raw_messages
   has no row for the id and at most once; the payload it classifies is
   the one then stored in raw_messages; with a row present it fetches
   nothing and parses the stored payload *)
C12_FetchOnlyWhenNoRow ==
  [][(CallStep /\ lastProc'.fn = "process_message") =>
       /\ lastProc'.fetches <= 1
       /\ lastProc'.fetches = 1 => lastProc'.rowBefore = NoRaw
       /\ lastProc'.called => raw_messages'[lastProc'.mid] = lastProc'.saw
       /\ lastProc'.rowBefore # NoRaw =>
            /\ lastProc'.fetches = 0
            /\ lastProc'.saw \in {lastProc'.rowBefore, NoRaw}
            /\ raw_messages'[lastProc'.mid] = lastProc'.rowBefore]_vars

(* a message whose row holds "null" was handed to process_message, which
   fetched it again *)
C12_Witness ==
  /\ lastProc.ran /\ lastProc.fn = "process_message"
  /\ lastProc.rowBefore = NullRaw /\ lastProc.fetches = 1

(* C13: when the fetch collaborator reports a 404, the call writes nothing
   to raw_messages or emails for that id, makes no classification call and
   returns without raising, in process_message and in ensure_raw_cached *)
C13_NotFoundWritesNothing ==
  [][(CallStep /\ lastProc'.fetches = 1 /\ ~lastProc'.given.found) =>
       /\ raw_messages'[lastProc'.mid] = raw_messages[lastProc'.mid]
       /\ EmailRow(emails', lastProc'.mid) = EmailRow(emails, lastProc'.mid)
       /\ ~lastProc'.called
       /\ lastProc'.how = "not_found"]_vars

(* ensure_raw_cached met a 404 and left a row holding "null" *)
C13_Witness ==
  /\ lastProc.ran /\ lastProc.fn = "ensure_raw_cached"
  /\ ~lastProc.given.found /\ lastProc.fetches = 1
  /\ raw_messages[lastProc.mid] = NullRaw

(***************************************************************************)
(* process_message as a function of the model replies: one message,        *)
(* processed again and again with any shallow object and any deep reply    *)
(***************************************************************************)
ShallowObjs == ClsObjs \cup {Cls("Spam", 9), Cls("Important", 2)}
DeepReplies == {"fail", "keep", "spam", "lower", "retitled"}

ClassifyInputs ==
  {in \in [found : {TRUE}, payload : {1}, parsed : {TRUE}, msg_dt_ok : {TRUE},
           llm : {Never} \cup {AtOnce(o) : o \in ShallowObjs},
           deepRes : DeepReplies, agentOK : BOOLEAN] :
     /\ (ShallowOf(in).category = "Spam" \/ ~NeedsDeep(ShallowOf(in)))
          => in.deepRes = "fail"
     /\ ShallowOf(in).category = "Spam" => in.agentOK}

ClassifyProcess ==
  /\ StProcess(ClassifyInputs)
  /\ lastProc'.mid = 1

NextClassify == ClassifyProcess \/ StRestart

SpecClassify == InitStore /\ [][NextClassify]_vars

(* C21: the deep pass runs in a processing exactly when the shallow
   category is not Spam and the shallow importance is at or above
   DEEP_THRESHOLD_IMPORTANCE or the shallow category is Important; a
   processing that made no shallow call runs no deep pass *)
C21_DeepTrigger ==
  [][CallStep =>
       /\ lastProc'.called =>
            (lastProc'.deep <=>
               /\ ShallowOf(lastProc'.given).category # "Spam"
               /\ \/ ShallowOf(lastProc'.given).importance >= DEEP_THRESHOLD_IMPORTANCE
                  \/ ShallowOf(lastProc'.given).category = "Important")
       /\ ~lastProc'.called => ~lastProc'.deep]_vars

(* the deep pass ran for a message that is not Important but has shallow
   importance 7 *)
C21_Witness ==
  /\ lastProc.ran /\ lastProc.deep
  /\ ShallowOf(lastProc.given) = Cls("Social", 7)

MergedFields == {"category", "importance", "action", "summary"}

(* the fields the deep pass returned for the recorded inputs: none when it
   failed *)
DeepFieldsOf(in) ==
  IF in.deepRes = "fail" THEN {} ELSE DOMAIN DeepReply(ShallowOf(in), in.deepRes)

(* C22: when the deep pass ran and failed on every retry, the stored record
   holds the shallow category, importance, action and summary and an empty
   deep summary, and the only way the processing can still raise is the
   action executor, after the record was stored *)
C22_DeepFailureKeepsShallow ==
  [][(CallStep /\ lastProc'.deep /\ lastProc'.given.deepRes = "fail") =>
       /\ EmailRow(emails', lastProc'.mid) =
            Rec(lastProc'.mid, ShallowOf(lastProc'.given).category,
                ShallowOf(lastProc'.given).importance,
                ShallowOf(lastProc'.given).action,
                ShallowOf(lastProc'.given).summary, "", 0)
       /\ lastProc'.how \in {"stored", "raised"}
       /\ lastProc'.how = "raised" => lastProc'.action]_vars

(* an Important message whose deep pass failed was stored and the whole
   processing returned *)
C22_Witness ==
  /\ lastProc.ran /\ lastProc.deep /\ lastProc.given.deepRes = "fail"
  /\ lastProc.how = "stored"
  /\ EmailRow(emails, lastProc.mid).category = "Important"
  /\ EmailRow(emails, lastProc.mid).deep_summary = ""

(* C23: in the record a processing stores, each of category, importance,
   action and summary is the deep value when the deep pass ran and returned
   that field and the shallow value otherwise, and deep_summary is non-empty
   only if the deep pass ran and returned it *)
C23_MergeRule ==
  [][(CallStep /\ WroteRecord(lastProc')) =>
       /\ \A f \in MergedFields :
            EmailRow(emails', lastProc'.mid)[f] =
              IF lastProc'.deep /\ f \in DeepFieldsOf(lastProc'.given)
              THEN DeepReply(ShallowOf(lastProc'.given), lastProc'.given.deepRes)[f]
              ELSE ShallowOf(lastProc'.given)[f]
       /\ EmailRow(emails', lastProc'.mid).deep_summary # "" =>
            /\ lastProc'.deep
            /\ "deep_summary" \in DeepFieldsOf(lastProc'.given)]_vars

(* the deep pass returned importance and deep_summary only: the record has
   the deep importance, the shallow category and the explanation *)
C23_Witness ==
  /\ lastProc.ran /\ lastProc.deep /\ lastProc.given.deepRes = "lower"
  /\ ShallowOf(lastProc.given) = Cls("Social", 7)
  /\ EmailRow(emails, lastProc.mid).importance = 2
  /\ EmailRow(emails, lastProc.mid).category = "Social"
  /\ EmailRow(emails, lastProc.mid).deep_summary = "d"

(* C24: handle_action runs for a message only if the record stored for it
   has category Important or importance at or above the threshold, and
   only after that record was stored *)
C24_ExecutorOnlyAboveThreshold ==
  [][(CallStep /\ lastProc'.action) =>
       /\ HasEmail(emails', lastProc'.mid)
       /\ \/ EmailRow(emails', lastProc'.mid).category = "Important"
          \/ EmailRow(emails', lastProc'.mid).importance >= DEEP_THRESHOLD_IMPORTANCE]_vars

(* handle_action ran for a stored Social message of importance 3 *)
C24_Witness ==
  /\ lastProc.ran /\ lastProc.action /\ ~lastProc.deep
  /\ EmailRow(emails, lastProc.mid).category = "Social"
  /\ EmailRow(emails, lastProc.mid).importance = 3

(***************************************************************************)
(* task_agents.py: the tools handle_action hands to the agent, called in   *)
(* any order; telegram_listener.py: the reply queue                        *)
(***************************************************************************)
Confirmed(tool, msg) == USER_CONFIRMATIONS[<<tool, msg>>] = "True"

ToolRan(tool, confirmed, effect, refused) ==
  [NoTool EXCEPT !.ran = TRUE, !.tool = tool, !.msg = agent.msg,
                 !.confirmed = confirmed, !.effect = effect, !.refused = refused]

(* the record of a gate call that returned: the tool it asked about, the
   queue item it took and the value it returned *)
GateRan(asked, item, returned) ==
  [NoTool EXCEPT !.ran = TRUE, !.tool = "ask_user_yes_no", !.msg = agent.msg,
                 !.asked = asked, !.item = item, !.returned = returned]

(* faulty variant: anything but "no" counts as approval *)
GateOutcomeLax(choice) == IF choice = "no" THEN "False" ELSE "True"

(* lines 80-89: what one turn of the wait does with the item it got *)
GateOutcome(choice) ==
  IF choice \in {"yes", "no"}
  THEN IF choice = "yes" THEN "True" ELSE "False"
  ELSE "wait"

AgentRunning == agent.msg # 0 /\ agent.asking = ""

(* handle_action(rec) starts the agent for a stored message *)
AgentStart ==
  /\ agent.msg = 0
  /\ \E m \in Msgs : HasEmail(emails, m) /\ agent' = [msg |-> m, asking |-> ""]
  /\ lastTool' = NoTool
  /\ UNCHANGED <<program, mailbox, classifier, updates, listener, loopVars, clock, history_ids, dbVars, ghostVars, mbVars,
                 USER_CONFIRMATIONS, response_queue>>

(* agent.run returns *)
AgentFinish ==
  /\ AgentRunning
  /\ agent' = NoAgent /\ lastTool' = NoTool
  /\ UNCHANGED <<program, mailbox, classifier, updates, listener, loopVars, clock, history_ids, dbVars, ghostVars, mbVars,
                 USER_CONFIRMATIONS, response_queue>>

(* _poll_updates: a button press or a text message of the user is queued *)
ListenerPut ==
  /\ Len(response_queue) < MaxQueue
  /\ \E choice \in {"yes", "no", "text"} :
       response_queue' = Append(response_queue, choice)
  /\ UNCHANGED <<program, mailbox, classifier, updates, listener, loopVars, clock, history_ids, dbVars, ghostVars, mbVars,
                 USER_CONFIRMATIONS, agent, lastTool>>

(* AskUserYesNoTool.forward up to the wait: the buttons are sent *)
AskUserYesNoSend ==
  /\ AgentRunning
  /\ \E tool \in ToolNames :
       /\ \/ USER_CONFIRMATIONS[<<tool, agent.msg>>] # "unset"
          \/ Cardinality({k \in DOMAIN USER_CONFIRMATIONS :
                            USER_CONFIRMATIONS[k] # "unset"}) < MaxConfirmations
       /\ agent' = [agent EXCEPT !.asking = tool]
  \* the items already queued when the prompt goes out are not its replies
  /\ lastTool' = [NoTool EXCEPT !.stale = Len(response_queue)]
  /\ UNCHANGED <<program, mailbox, classifier, updates, listener, loopVars, clock, history_ids, dbVars, ghostVars, mbVars,
                 USER_CONFIRMATIONS, response_queue>>

(* AskUserYesNoTool.forward, one turn of "while True" with a reply in the
   queue: fetch_latest_user_reply takes the head of the queue *)
AskUserYesNoPoll ==
  /\ agent.asking # "" /\ response_queue # <<>>
  /\ LET choice == Head(response_queue)
         key == <<agent.asking, agent.msg>>
         approved == GateOutcome(choice)
     IN IF approved # "wait"
        THEN /\ USER_CONFIRMATIONS' = [USER_CONFIRMATIONS EXCEPT ![key] = approved]
             /\ agent' = [agent EXCEPT !.asking = ""]
             /\ lastTool' = [GateRan(agent.asking, choice, approved)
                               EXCEPT !.old = lastTool.stale > 0]
        ELSE /\ lastTool' = [lastTool EXCEPT !.stale = IF @ > 0 THEN @ - 1 ELSE 0]
             /\ UNCHANGED <<USER_CONFIRMATIONS, agent>>
  /\ response_queue' = Tail(response_queue)
  /\ UNCHANGED <<program, mailbox, classifier, updates, listener, loopVars, clock, history_ids, dbVars, ghostVars, mbVars>>

(* GmailMarkSpamTool.forward: messages().modify, its exception swallowed *)
GmailMarkSpamCall ==
  /\ AgentRunning
  /\ \E apiOK \in BOOLEAN :
       lastTool' = ToolRan("gmail_mark_spam", Confirmed("gmail_mark_spam", agent.msg),
                           apiOK, FALSE)
  /\ UNCHANGED <<program, mailbox, classifier, updates, listener, loopVars, clock, history_ids, dbVars, ghostVars, mbVars,
                 USER_CONFIRMATIONS, response_queue, agent>>

(* SendEmailTool.forward: send_email_via_gmail *)
SendEmailCall ==
  /\ AgentRunning
  /\ \E apiOK \in BOOLEAN :
       lastTool' = ToolRan("send_email", Confirmed("send_email", agent.msg),
                           apiOK, FALSE)
  /\ UNCHANGED <<program, mailbox, classifier, updates, listener, loopVars, clock, history_ids, dbVars, ghostVars, mbVars,
                 USER_CONFIRMATIONS, response_queue, agent>>

(* the body shared by GmailCreateEventTool.forward and
   ScheduleReminderTool.forward: the confirmation check, then events().insert *)
CalendarToolCall(tool) ==
  /\ AgentRunning
  /\ \E apiOK \in BOOLEAN :
       LET confirmed == Confirmed(tool, agent.msg)
       IN IF AGENT_ALWAYS_ASK_HUMAN /\ ~confirmed
          THEN lastTool' = ToolRan(tool, confirmed, FALSE, TRUE)
          ELSE lastTool' = ToolRan(tool, confirmed, apiOK, FALSE)
  /\ UNCHANGED <<program, mailbox, classifier, updates, listener, loopVars, clock, history_ids, dbVars, ghostVars, mbVars,
                 USER_CONFIRMATIONS, response_queue, agent>>

GmailCreateEventCall == CalendarToolCall("gmail_create_event")
ScheduleReminderCall == CalendarToolCall("schedule_reminder")

InitAgent ==
  /\ program = "mailbot" /\ pc = "proc"
  /\ acctIdx = 1 /\ pending = <<>> /\ resp = NoResp /\ any_important = FALSE
  /\ loopNow = <<0, 0>> /\ clock = <<0, 0>>
  /\ last_planning = 0
  /\ history_ids = [a \in Accounts |-> 1]
  /\ emails \in StoredTables /\ raw_messages = RawOf(1)
  /\ tasks = <<>>
  /\ lastDispatch = NoDispatch /\ lastRun = NoRun /\ lastAdd = NoAdd
  /\ MailbotIdle /\ AgentIdle

NextAgent ==
  \/ AgentStart \/ AgentFinish \/ ListenerPut \/ AskUserYesNoSend \/ AskUserYesNoPoll
  \/ GmailMarkSpamCall \/ SendEmailCall \/ GmailCreateEventCall \/ ScheduleReminderCall

SpecAgent == InitAgent /\ [][NextAgent]_vars

(* C1: whenever the body of gmail_mark_spam, gmail_create_event,
   schedule_reminder or send_email performed its external effect for a
   message, USER_CONFIRMATIONS held True for (that tool, that message) when
   the body ran *)
C1_EffectsNeedConfirmation ==
  (lastTool.ran /\ lastTool.effect) => lastTool.confirmed

(* a calendar tool ran without a recorded confirmation and refused *)
C1_Witness ==
  /\ lastTool.ran /\ lastTool.refused /\ ~lastTool.effect
  /\ lastTool.tool = "gmail_create_event"

(* C14: once the human has answered yes for (tool, message), no later gate
   call of the run for that pair sends a prompt and waits on the reply queue *)
C14_NoPromptAfterYes ==
  agent.asking # "" => ~Confirmed(agent.asking, agent.msg)

(* the gate has sent a prompt for a pair already answered yes and waits on
   an empty queue *)
C14_Witness ==
  /\ agent.asking # "" /\ Confirmed(agent.asking, agent.msg)
  /\ response_queue = <<>>

GateReturns == agent.asking # "" /\ agent'.asking = ""

(* C15: a gate call returns only in a step that takes a "yes" or "no" item
   from the reply queue after its prompt was sent; it returns True exactly
   when the item is "yes", and USER_CONFIRMATIONS of (tool, message) then
   equals the returned value *)
C15_GateReturn ==
  [][/\ GateReturns =>
          /\ response_queue # <<>> /\ Head(response_queue) \in {"yes", "no"}
          /\ response_queue' = Tail(response_queue)
          /\ lastTool'.item = Head(response_queue)
          /\ lastTool'.returned = "True" <=> Head(response_queue) = "yes"
          /\ lastTool'.returned \in {"True", "False"}
          /\ USER_CONFIRMATIONS'[<<agent.asking, agent.msg>>] = lastTool'.returned
     /\ (agent.asking # "" /\ Len(response_queue') < Len(response_queue) /\ ~GateReturns)
          => (response_queue # <<>> /\ Head(response_queue) \notin {"yes", "no"})]_vars

(* the gate returned False on a "no" for a pair that had been answered yes
   before, and the record now holds False *)
C15_Witness ==
  /\ lastTool.ran /\ lastTool.tool = "ask_user_yes_no"
  /\ lastTool.item = "no" /\ lastTool.returned = "False"
  /\ USER_CONFIRMATIONS[<<lastTool.asked, lastTool.msg>>] = "False"

(* C16: after a human no for (tool, message), with no later yes, a call of
   that tool for that message refuses and performs no effect *)
C16_RefusalAfterNo ==
  (lastTool.ran /\ lastTool.tool \in ToolNames
     /\ USER_CONFIRMATIONS[<<lastTool.tool, lastTool.msg>>] = "False")
    => (lastTool.refused /\ ~lastTool.effect)

(* gmail_mark_spam modified the message although the recorded answer for it
   is no *)
C16_Witness ==
  /\ lastTool.ran /\ lastTool.tool = "gmail_mark_spam" /\ lastTool.effect
  /\ USER_CONFIRMATIONS[<<"gmail_mark_spam", lastTool.msg>>] = "False"

(* C28: a confirmation is resolved only by a reply given to its own prompt:
   an item that was in the reply queue before the prompt was sent never
   approves or denies it *)
C28_OnlyRepliesToThisPrompt ==
  [][GateReturns => ~lastTool'.old]_vars

(* a yes queued while no prompt was out approved the next confirmation *)
C28_Witness ==
  /\ lastTool.ran /\ lastTool.tool = "ask_user_yes_no"
  /\ lastTool.old /\ lastTool.item = "yes" /\ lastTool.returned = "True"
  /\ Confirmed(lastTool.asked, lastTool.msg)

(***************************************************************************)
(* The agent with a waiting gate that keeps polling: "while True" with     *)
(* time.sleep(1) takes its next turn as long as the process runs.          *)
(* ListenerPut is a press together with its delivery by _poll_updates.     *)
(***************************************************************************)
SpecAgentFair == SpecAgent /\ WF_vars(AskUserYesNoPoll)

(* the first reply queued after the waiting prompt went out is c *)
FreshPress(c) ==
  /\ agent.asking # ""
  /\ Len(response_queue) > lastTool.stale
  /\ response_queue[lastTool.stale + 1] = c

GateAnswered(c) ==
  /\ lastTool.ran /\ lastTool.tool = "ask_user_yes_no"
  /\ lastTool.returned = GateOutcome(c)

(* C29: once the human has pressed Yes or No for a pending confirmation the
   gate eventually returns that answer, for every confirmation of the run,
   and it never returns on anything but a reply to its own prompt *)
C29_GateEventuallyAnswers ==
  /\ FreshPress("yes") ~> GateAnswered("yes")
  /\ FreshPress("no") ~> GateAnswered("no")
  /\ [][GateReturns => (~lastTool'.old /\ lastTool'.item \in {"yes", "no"})]_vars

(* the human pressed Yes for the pending prompt, and the gate returned False
   on a No that had been queued before the prompt *)
C29_Witness ==
  /\ lastTool.ran /\ lastTool.tool = "ask_user_yes_no"
  /\ lastTool.old /\ lastTool.item = "no" /\ lastTool.returned = "False"
  /\ response_queue = <<"yes">>

(* the parts of C29 that need no reference to which prompt a reply was for:
   a waiting gate with a yes or no in the queue eventually returns, and it
   returns only on a yes or no item *)
GateEventuallyReturns ==
  (agent.asking # "" /\ \E i \in DOMAIN response_queue : response_queue[i] \in {"yes", "no"})
     ~> (lastTool.ran /\ lastTool.tool = "ask_user_yes_no")

(***************************************************************************)
(* classifier.py called directly: llama_chat and initial_classify over      *)
(* every mixture of attempt outcomes                                        *)
(***************************************************************************)
(* {"summary": "}", ...}: an object with a closing brace in a string value *)
BraceInString(o) == <<Ch("{"), Ch("q"), Ch("}"), Ch("q"), Member(o), Ch("}")>>

ChatOutcomes ==
  {RequestError, BadBody, Reply(<<>>), Reply(<<Junk>>),
   Reply(<<Junk>> \o Json(Cls("Important", 5))),
   Reply(Json(Cls("Social", 3)) \o Json(Cls("Spam", 2))),
   Reply(BraceInString(Cls("Social", 7)))}
ChatRuns == [1..LlamaRetries -> ChatOutcomes]

ChatRest == <<program, loopVars, clock, history_ids, dbVars, ghostVars, mbVars, agVars, mailbox,
              updates, listener>>

LlChat ==
  /\ classifier = NoChat
  /\ \E outs \in ChatRuns :
       classifier' = [fn |-> "llama_chat", outs |-> outs, out |-> llama_chat(outs)]
  /\ UNCHANGED ChatRest

LlShallow ==
  /\ classifier = NoChat
  /\ \E ok \in BOOLEAN, outs \in ChatRuns :
       classifier' = [fn |-> "initial_classify", outs |-> outs,
                      out |-> initial_classify(ok, outs)]
  /\ UNCHANGED ChatRest

(* reply texts of up to MaxText characters *)
ReplyChars == {Ch("{"), Ch("}"), Ch("q"), Ch("x"), Member(Cls("Important", 5))}
RECURSIVE TextsOf(_)
TextsOf(n) ==
  IF n = 0 THEN {<<>>}
  ELSE LET shorter == TextsOf(n - 1)
       IN shorter \cup {Append(t, c) : t \in {u \in shorter : Len(u) = n - 1}, c \in ReplyChars}
ReplyTexts == TextsOf(MaxText)

LlExtract ==
  /\ classifier = NoChat
  /\ \E text \in ReplyTexts :
       classifier' = [fn |-> "extract_json_objects", text |-> text,
                      out |-> extract_json_objects(text)]
  /\ UNCHANGED ChatRest

LlReturn ==
  /\ classifier # NoChat
  /\ classifier' = NoChat
  /\ UNCHANGED ChatRest

InitLlama == InitStore

NextLlama == LlChat \/ LlShallow \/ LlExtract \/ LlReturn

SpecLlama == InitLlama /\ [][NextLlama]_vars

(* the brace-delimited stretches of the text that are a JSON object *)
WellFormed(text) ==
  {se \in (DOMAIN text) \X (DOMAIN text) :
     se[1] <= se[2] /\ json_loads(SubSeq(text, se[1], se[2])).ok}
(* the reply holds a JSON object *)
WellFormedIn(text) == WellFormed(text) # {}
FailedAttempt(o) == o.err \/ (o # BadBody /\ ~WellFormedIn(o.text))
GoodAttempts(outs) == {i \in DOMAIN outs : outs[i] # BadBody /\ ~FailedAttempt(outs[i])}

(* the retry budget: a llama_chat call never makes more than LlamaRetries
   requests, makes all of them before it returns None, and a shallow pass
   that reached the collaborator returns an object or the fallback without
   raising *)
RequestBudget ==
  /\ classifier.fn = "llama_chat" =>
       /\ classifier.out.requests \in 1..LlamaRetries
       /\ classifier.out.none => classifier.out.requests = LlamaRetries
       /\ (~classifier.out.none /\ ~classifier.out.raised) => classifier.out.js # <<>>
  /\ (classifier.fn = "initial_classify" /\ classifier.out.called) =>
       ~classifier.out.raised

(* C36: a llama_chat call makes at most LlamaRetries requests; over request
   errors and replies without an object it returns the objects of the first
   attempt whose reply holds a well-formed object, having made exactly that
   many requests, and returns None after LlamaRetries requests when no
   attempt holds one; a shallow pass that reached the collaborator returns
   the first object of such a reply or the fallback, and does not raise *)
C36_BoundedRetries ==
  /\ classifier.fn = "llama_chat" =>
       LET outs == classifier.outs
           r == classifier.out
           good == GoodAttempts(outs)
       IN /\ r.requests <= LlamaRetries
          /\ (\A i \in DOMAIN outs : outs[i] # BadBody) =>
               /\ ~r.raised
               /\ good # {} =>
                    \E i \in good :
                      /\ \A j \in good : i <= j
                      /\ r.requests = i /\ ~r.none
                      /\ r.js = extract_json_objects(outs[i].text)
               /\ good = {} => (r.none /\ r.requests = LlamaRetries)
  /\ (classifier.fn = "initial_classify" /\ classifier.out.called) =>
       /\ ~classifier.out.raised
       /\ \/ classifier.out.obj = Fallback
          \/ \E i \in GoodAttempts(classifier.outs) :
               classifier.out.obj = extract_json_objects(classifier.outs[i].text)[1]

C36_Witness ==
  /\ classifier.fn = "llama_chat"
  /\ classifier.outs[1] = RequestError /\ classifier.outs[2] = Reply(<<Junk>>)
  /\ 3 \in GoodAttempts(classifier.outs)
  /\ classifier.out.requests = 3 /\ ~classifier.out.none

(* the stretch of the text that is its first well-formed object *)
FirstWellFormed(text) ==
  CHOOSE se \in WellFormed(text) : \A o \in WellFormed(text) : se[1] <= o[1]

(* C38: element 0 of extract_json_objects is the first well-formed
   brace-delimited JSON object of the text, also when a string value holds
   brace characters, and the result is empty exactly when the text holds no
   well-formed object *)
C38_FirstWellFormedObject ==
  classifier.fn = "extract_json_objects" =>
    LET text == classifier.text
    IN /\ (classifier.out = <<>>) <=> (WellFormed(text) = {})
       /\ WellFormed(text) # {} =>
            /\ classifier.out # <<>>
            /\ classifier.out[1] =
                 json_loads(SubSeq(text, FirstWellFormed(text)[1],
                                   FirstWellFormed(text)[2])).obj

(* an object whose string value holds a closing brace is cut at that brace,
   the candidate is malformed and skipped, and nothing is found *)
C38_Witness ==
  /\ classifier.fn = "extract_json_objects"
  /\ classifier.text = <<Ch("{"), Ch("q"), Ch("}"), Ch("q"), Ch("}")>>
  /\ WellFormed(classifier.text) = {<<1, 5>>}
  /\ classifier.out = <<>>

(* every object returned is a well-formed stretch of the text, in text
   order, and a text without braces gives the empty list *)
ExtractedAreWellFormed ==
  classifier.fn = "extract_json_objects" =>
    /\ Len(classifier.out) <= Cardinality(WellFormed(classifier.text))
    /\ find(classifier.text, "{", 1) = 0 => classifier.out = <<>>

(***************************************************************************)
(* telegram_listener.py: the listener thread and the consumers of the      *)
(* reply queue, in one run of the program                                   *)
(***************************************************************************)
TELEGRAM_CHANNEL == "channel"
Chats == {TELEGRAM_CHANNEL, "elsewhere"}

(* an update is a button press (callback_query, with its data) or a message
   (with its text, "" for a message without text) *)
Update(id, kind, chat, data) ==
  [update_id |-> id, kind |-> kind, chat |-> chat, data |-> data]

(* Telegram receives an update; ids are given in order *)
TgUpdate ==
  /\ Len(updates) < MaxUpdates
  /\ \E chat \in Chats :
       \/ \E data \in {"yes", "no"} :
            updates' = Append(updates, Update(Len(updates) + 1, "callback", chat, data))
       \/ \E text \in {"text", ""} :
            updates' = Append(updates, Update(Len(updates) + 1, "message", chat, text))
  /\ UNCHANGED <<program, mailbox, classifier, listener, loopVars, clock, history_ids,
                 dbVars, ghostVars, mbVars, agVars>>

(* getUpdates with offset: the updates not below it *)
getUpdates(offset) == SelectSeq(updates, LAMBDA u : u.update_id >= offset)

(* response_queue.put *)
Put(st, u) ==
  [st EXCEPT !.queue = Append(@, u.data), !.ids = Append(@, u.update_id),
             !.enqueued = Append(@, u.update_id)]

(* "for update in data"; the answerCallbackQuery request of update failAt
   raises (0: none does): it is outside any try, so the thread ends there *)
RECURSIVE ForUpdates(_, _, _)
ForUpdates(data, st, failAt) ==
  IF data = <<>> THEN st
  ELSE LET u == Head(data)
           st1 == [st EXCEPT !.offset = u.update_id + 1]
       IN IF u.kind = "callback" /\ u.chat = TELEGRAM_CHANNEL
          THEN LET st2 == IF u.data # "" THEN Put(st1, u) ELSE st1
               IN IF failAt = u.update_id THEN [st2 EXCEPT !.alive = FALSE]
                  ELSE ForUpdates(Tail(data), st2, failAt)
          ELSE IF u.kind = "message" /\ u.chat = TELEGRAM_CHANNEL
          THEN ForUpdates(Tail(data), IF u.data # "" THEN Put(st1, u) ELSE st1, failAt)
          ELSE ForUpdates(Tail(data), st1, failAt)

(* one pass of _poll_updates' "while True": getUpdates raises (sleep and
   continue) or returns the updates from _update_offset on *)
LsPoll ==
  /\ listener.alive
  /\ \E ok \in BOOLEAN, failAt \in 0..MaxUpdates :
       IF ~ok THEN UNCHANGED <<listener, response_queue>>
       ELSE \E st \in {ForUpdates(getUpdates(listener.offset),
                                  [offset |-> listener.offset, alive |-> TRUE,
                                   queue |-> response_queue, ids |-> listener.ids,
                                   enqueued |-> listener.enqueued], failAt)} :
              /\ response_queue' = st.queue
              /\ listener' = [listener EXCEPT !.offset = st.offset, !.alive = st.alive,
                                              !.ids = st.ids, !.enqueued = st.enqueued]
  /\ UNCHANGED <<program, mailbox, classifier, updates, loopVars, clock, history_ids,
                 dbVars, ghostVars, mbVars, USER_CONFIRMATIONS, agent, lastTool>>

(* fetch_latest_user_reply: get_nowait, None when the queue is empty *)
LsFetch ==
  /\ IF response_queue = <<>> THEN UNCHANGED <<listener, response_queue>>
     ELSE /\ response_queue' = Tail(response_queue)
          /\ listener' = [listener EXCEPT !.ids = Tail(@),
                                          !.got = Append(@, Head(listener.ids))]
  /\ UNCHANGED <<program, mailbox, classifier, updates, loopVars, clock, history_ids,
                 dbVars, ghostVars, mbVars, USER_CONFIRMATIONS, agent, lastTool>>

InitListener == InitStore

NextListener == TgUpdate \/ LsPoll \/ LsFetch

SpecListener == InitListener /\ [][NextListener]_vars

(* the thread is scheduled while it runs *)
SpecListenerFair == SpecListener /\ WF_vars(LsPoll)

(* a button press or a text message from the configured channel *)
Inbound(u) == u.chat = TELEGRAM_CHANNEL /\ u.data # ""
InboundIds == {i \in DOMAIN updates : Inbound(updates[i])}

(* what holds of the queue: nothing is put twice, puts follow the update
   ids, only inbound updates of the configured channel are put, every such
   update the offset has passed was put, the queue holds what was put and
   not yet fetched, and items are fetched in the order they were put *)
QueueDiscipline ==
  /\ \A i, j \in DOMAIN listener.enqueued :
       i < j => listener.enqueued[i] < listener.enqueued[j]
  /\ \A i \in DOMAIN listener.enqueued : listener.enqueued[i] \in InboundIds
  /\ \A i \in InboundIds : i < listener.offset => CountIn(listener.enqueued, i) = 1
  /\ listener.enqueued = listener.got \o listener.ids
  /\ response_queue = [i \in DOMAIN listener.ids |-> updates[listener.ids[i]].data]

(* C37: each button press or text message from the configured channel is
   put on the queue exactly once, puts follow the update ids, updates of
   other chats are never put, and consumers receive the items in the order
   they were put *)
C37_EveryReplyQueuedOnce ==
  /\ [](/\ \A i \in DOMAIN updates : CountIn(listener.enqueued, i) <= 1
        /\ \A i, j \in DOMAIN listener.enqueued :
             i < j => listener.enqueued[i] < listener.enqueued[j]
        /\ \A i \in DOMAIN listener.enqueued :
             updates[listener.enqueued[i]].chat = TELEGRAM_CHANNEL
        /\ listener.enqueued = listener.got \o listener.ids)
  /\ \A i \in 1..MaxUpdates :
       (i \in InboundIds) ~> (CountIn(listener.enqueued, i) = 1)

(* the acknowledgement of a press failed and ended the thread; a later
   reply from the channel waits at Telegram and is never put *)
C37_Witness ==
  /\ ~listener.alive
  /\ Len(listener.enqueued) = 1
  /\ \E i \in InboundIds : i >= listener.offset

(***************************************************************************)
(* calendar_planner.py called directly: plan_calendar_actions over runs of *)
(* MaxPlanned items, more than the context holds                            *)
(***************************************************************************)
PlannedItems ==
  [i \in 1..MaxPlanned |-> [msg_id |-> i, category |-> "Important", importance |-> 5]]

NoneResp == [list |-> FALSE, obj |-> EmptyObj]
EmptyResp == [list |-> TRUE, obj |-> EmptyObj]
TaskResp == [list |-> TRUE, obj |-> [type |-> "reminder", datetime |-> <<MaxDay, 12>>, msg_id |-> 0]]

(* the replies of one run: a task for every item but at most two *)
ContextResps ==
  {[i \in 1..MaxPlanned |-> IF i = a THEN x ELSE IF i = b THEN y ELSE TaskResp] :
     a \in 0..MaxPlanned, b \in 0..MaxPlanned, x \in {NoneResp, EmptyResp},
     y \in {NoneResp, EmptyResp}}

CxPlan ==
  /\ classifier = NoChat
  /\ \E resps \in ContextResps :
       classifier' =
         [fn |-> "plan_calendar_actions", resps |-> resps,
          contexts |-> [k \in 1..MaxPlanned |->
                          LET c == ContextAt(PlannedItems, resps, k)
                          IN [i \in DOMAIN c |-> c[i].msg_id]],
          out |-> plan_calendar_actions(PlannedItems, resps)]
  /\ UNCHANGED ChatRest

InitContext == InitStore

NextContext == CxPlan \/ LlReturn

SpecContext == InitContext /\ [][NextContext]_vars

(* the items before the k-th whose planning call proposed a task *)
ProposedBefore(resps, k) ==
  SelectSeq([i \in 1..(k - 1) |-> i],
            LAMBDA i : resps[i].list /\ resps[i].obj # EmptyObj)
(* the items before the k-th whose planning call returned a list *)
AnsweredBefore(resps, k) ==
  SelectSeq([i \in 1..(k - 1) |-> i], LAMBDA i : resps[i].list)
LastOf(seq, n) == IF Len(seq) <= n THEN seq ELSE SubSeq(seq, Len(seq) - n + 1, Len(seq))
FirstOf(seq, n) == IF Len(seq) <= n THEN seq ELSE SubSeq(seq, 1, n)

(* C39: the planning call of each item receives as context exactly the most
   recent ContextCap of the tasks proposed so far in the run, all of them
   when there are fewer, and an item whose call returned the empty result
   adds no entry *)
C39_ContextIsMostRecent ==
  classifier.fn = "plan_calendar_actions" =>
    \A k \in 1..MaxPlanned :
      classifier.contexts[k] = LastOf(ProposedBefore(classifier.resps, k), ContextCap)

(* eleven tasks were proposed before the last item, and its context is the
   first ten of them *)
C39_Witness ==
  /\ classifier.fn = "plan_calendar_actions"
  /\ \A i \in 1..MaxPlanned : classifier.resps[i] = TaskResp
  /\ Len(ProposedBefore(classifier.resps, MaxPlanned)) = ContextCap + 1
  /\ classifier.contexts[MaxPlanned] = [i \in 1..ContextCap |-> i]

(* what the context is: the first ContextCap entries of the list, to which
   every call that returned a list appended one, the empty object too *)
ContextIsOldest ==
  classifier.fn = "plan_calendar_actions" =>
    \A k \in 1..MaxPlanned :
      classifier.contexts[k] = FirstOf(AnsweredBefore(classifier.resps, k), ContextCap)

====
